---- MODULE Spec2Model ----
(***************************************************************************)
(* Verification model of the document chunking / hybrid search backend.    *)
(*                                                                         *)
(*   SpecSearch : POST /search (semantic_search) over the rows of          *)
(*                chunk_embeddings JOIN document_chunks.                   *)
(*   SpecTocRanges, SpecTocPaths : POST /admin/documents/{id}/chunk-toc    *)
(*                (chunk_by_toc), the page-range and the section-path      *)
(*                computation over the stored table of contents.           *)
(*   SpecSplit  : _split_by_paragraphs on a text and a size limit.         *)
(*   SpecChunkBuild, SpecChunkRuns : chunk_by_toc from the page texts to   *)
(*                the batch upsert into document_chunks, one run over a    *)
(*                partly parsed PDF and re-runs of one document.           *)
(*   SpecNorm   : normalize_text applied to a string and to its output.    *)
(*   SpecPager  : paginate_search, the client loop over POST /search,      *)
(*                against an endpoint that answers anything.               *)
(*   SpecPaging : paginate_search against semantic_search over a chunk     *)
(*                set that no longer changes.                              *)
(*   SpecEmbed  : embed_document and embed_chunk writing chunk_embeddings  *)
(*                between chunk-toc runs of the document.                  *)
(*   SpecTocStore : store_document_toc requests, one transaction each,     *)
(*                that may overlap.                                        *)
(*   SpecEndpoints : the document endpoints called with the id of a        *)
(*                stored or a missing document.                            *)
(*                                                                         *)
(* Distances are kept in hundredths so that the lexical boost 0.05 is the  *)
(* integer 5.                                                              *)
(***************************************************************************)
EXTENDS Integers, Sequences, FiniteSets, TLC

VARIABLES
    embedded,     \* rows of chunk_embeddings JOIN document_chunks, by chunk id
    search,       \* the last /search request with its intermediate relations and response
    entries,      \* document_toc rows of the document, ORDER BY order_index
    page_count,   \* page count of the PDF at documents.local_path
    toc,          \* outcome of the last chunk_by_toc run (ranges, paths, stacks)
    split,        \* one call of _split_by_paragraphs: arguments and returned pieces
    norm,         \* one string with normalize_text applied once and twice
    document_pages,   \* document_pages rows of the document: page_number -> content
    document_chunks,  \* committed document_chunks rows of the document
    run,          \* the chunk-toc request in progress or last finished
    pager,        \* one paginate_search call against a scripted /search endpoint
    chunk_ids,    \* document_chunks.id: the unique keys in the order of first insert
    chunk_embeddings, \* committed chunk_embeddings rows, by chunk id
    embed,        \* the embed request in progress or last finished
    document_toc, \* committed document_toc rows, with their SERIAL ids
    toc_tx,       \* the store-toc requests in progress, one transaction each
    documents,    \* documents rows: id -> local_path
    reply         \* the last answer of a document endpoint

vars == <<embedded, search, entries, page_count, toc, split, norm,
          document_pages, document_chunks, run, pager,
          chunk_ids, chunk_embeddings, embed, document_toc, toc_tx, documents, reply>>

\* ------------------------------------------------------------------------
\* Bounds of the model
\* ------------------------------------------------------------------------
MaxChunks == 2
MaxTopK == 2
MaxOffset == 1

NULL == "<NULL>"            \* SQL NULL in a text column
None == -1                  \* Python None / JSON null where an integer is expected

\* (document_id, section_path) of the stored chunks.  chunk_by_toc always
\* writes a string; NULL stands for rows of other writers, which the query
\* reads through COALESCE(section_path, '').
StoredSections == {<<1, NULL>>, <<1, "">>, <<1, "A">>, <<2, "A">>}
\* L2 distance of a stored embedding to the query vector, in hundredths
Dists == {10, 15}
\* char_length(content) of the stored chunks
Lens == {80}
\* the filter settings of a request: none, one document, a minimum content
\* length, an excluded section
FilterSettings ==
    {[document_id |-> None, min_chars |-> 0,   exclude_section_exact |-> <<>>],
     [document_id |-> 1,    min_chars |-> 0,   exclude_section_exact |-> <<>>],
     [document_id |-> None, min_chars |-> 100, exclude_section_exact |-> <<>>],
     [document_id |-> None, min_chars |-> 60,  exclude_section_exact |-> <<"">>]}

MaxToc == 3
MaxLevel == 3
MaxPage == 3
Titles == {"", "A", "B"}

MaxLen == 7                 \* longest text handed to _split_by_paragraphs
MaxChars == 4               \* largest max_chars

MaxRuns == 2                \* chunk-toc requests for the document
MaxRunToc == 2              \* headings of the outlines a re-run sees
MaxBuildToc == 2            \* headings of the outline of a single run
BuildPages == 3             \* pages of the PDF of a single run
RunLevels == {1, 2}
\* max_chars of the chunk-toc requests
ChunkMaxChars == {1, 4}
\* page texts of the re-run document as parse_pages stores them
RunTexts == {<<"a">>, <<"a", "\n", "\n", "a">>}
\* the text of page p of the PDF of a single run, when the page has text
PageLetters == <<"a", "b", "c", "d", "e">>

MaxNormLen == 4             \* longest string handed to normalize_text
MaxCalls == 2               \* applications of normalize_text in a row
\* code points of the strings handed to normalize_text: a-circumflex, euro,
\* broken bar, oe ligature, A-circumflex, zero width space, blank, line feed
CodePoints == {226, 8364, 166, 339, 194, 8203, 32, 10}

MaxRequests == 2            \* requests of one paginate_search call
Absent == -2                \* a key missing from a JSON object
\* (document_id, chunk_index) of the rows the endpoint serves
RowKeys == {<<1, 10>>, <<1, 11>>, <<1, 12>>, <<2, 10>>}
\* number of rows on a served page
PageSizes == {0, 1, 2}
MaxEmbedRuns == 2           \* embed requests for the document
MaxRechunks == 2            \* chunk-toc requests between them
\* lengths of the vectors the embedding provider returns
EmbedDims == {1536, 3072}
\* batch_size of the embed requests
EmbedBatchSizes == {1, 2}
\* page text of the embedded document: "a a" and two paragraphs "a"
EmbedTexts == {<<"a", " ", "a">>, <<"a", "\n", "\n", "a">>}

MaxTocRuns == 3             \* store-toc requests for the document
MaxOutline == 2             \* items of the outline a store-toc request extracts

\* next_offset of a response body
NextOffsets == {Absent, None, 0, 2}
\* top_k of the call: a page of PageSizes rows can be full, or always short
PagerTopK == {2, 3}

MaxPagedChunks == 2         \* embedded chunks of the set paginate_search walks
\* (document_id, section_path) of the chunks of that set
PagedSections == {<<1, "A">>, <<1, "B">>, <<2, "A">>}
\* distances of those chunks to the query, in hundredths
PagedDists == {10, 14, 16}

\* ------------------------------------------------------------------------
\* Generic helpers
\* ------------------------------------------------------------------------
Min2(a, b) == IF a <= b THEN a ELSE b
Max2(a, b) == IF a >= b THEN a ELSE b

Range(s) == {s[i] : i \in DOMAIN s}

\* All sequences that enumerate the finite set S once each: the orders in
\* which a scan without ORDER BY may deliver the rows.
ScanOrders(S) ==
    LET n == Cardinality(S)
    IN  {f \in [1..n -> S] : \A i, j \in 1..n : i # j => f[i] # f[j]}

\* ------------------------------------------------------------------------
\* semantic_search
\* ------------------------------------------------------------------------
boost_coef == 5

COALESCE(v, d) == IF v = NULL THEN d ELSE v

\* WHERE {where_sql}
Where(c, payload) ==
    /\ (payload.document_id # None => c.document_id = payload.document_id)
    /\ (payload.min_chars > 0 => c.content_len >= payload.min_chars)
    /\ (Len(payload.exclude_section_exact) > 0 =>
            COALESCE(c.section_path, "") \notin Range(payload.exclude_section_exact))

\* variant: a boost of 0.5 instead of 0.05
scored_BigBoost(scan, payload) ==
    LET kept == SelectSeq(scan, LAMBDA c : Where(c, payload))
        row(c) == [chunk_id     |-> c.chunk_id,
                   document_id  |-> c.document_id,
                   section_path |-> c.section_path,
                   chunk_index  |-> c.chunk_index,
                   dist         |-> c.dist,
                   lexical_hit  |-> c.lexical_hit,
                   combined     |-> c.dist - 10 * boost_coef * c.lexical_hit]
    IN  [i \in 1..Len(kept) |-> row(kept[i])]

\* CTE rank_by followed by CTE scored
scored(scan, payload) ==
    LET kept == SelectSeq(scan, LAMBDA c : Where(c, payload))
        row(c) == [chunk_id     |-> c.chunk_id,
                   document_id  |-> c.document_id,
                   section_path |-> c.section_path,
                   chunk_index  |-> c.chunk_index,
                   dist         |-> c.dist,
                   lexical_hit  |-> c.lexical_hit,
                   combined     |-> c.dist - boost_coef * c.lexical_hit]
    IN  [i \in 1..Len(kept) |-> row(kept[i])]

\* variant: PARTITION BY document_id, section_path (no COALESCE)
SamePartition_NoCoalesce(a, b) ==
    /\ a.document_id = b.document_id
    /\ a.section_path = b.section_path

\* PARTITION BY document_id, COALESCE(section_path, '')
SamePartition(a, b) ==
    /\ a.document_id = b.document_id
    /\ COALESCE(a.section_path, "") = COALESCE(b.section_path, "")

\* variant: ORDER BY chunk_id ASC (the first stored chunk of a section wins)
PartitionOrderLess_IdOnly(a, b) == a.chunk_id < b.chunk_id

\* ORDER BY combined ASC, dist ASC, chunk_id ASC   (window of best_per_section)
PartitionOrderLess(a, b) ==
    \/ a.combined < b.combined
    \/ (a.combined = b.combined /\ a.dist < b.dist)
    \/ (a.combined = b.combined /\ a.dist = b.dist /\ a.chunk_id < b.chunk_id)

\* variant: ORDER BY combined ASC, dist ASC, lexical_hit DESC (no chunk_id)
FinalOrderLess_NoChunkId(a, b) ==
    \/ a.combined < b.combined
    \/ (a.combined = b.combined /\ a.dist < b.dist)
    \/ (a.combined = b.combined /\ a.dist = b.dist /\ a.lexical_hit > b.lexical_hit)

\* ORDER BY combined ASC, dist ASC, lexical_hit DESC, chunk_id ASC   (final)
FinalOrderLess(a, b) ==
    \/ a.combined < b.combined
    \/ (a.combined = b.combined /\ a.dist < b.dist)
    \/ (a.combined = b.combined /\ a.dist = b.dist /\ a.lexical_hit > b.lexical_hit)
    \/ (a.combined = b.combined /\ a.dist = b.dist /\ a.lexical_hit = b.lexical_hit
            /\ a.chunk_id < b.chunk_id)

\* the final ORDER BY: a stable sort of s under FinalOrderLess; rows that tie
\* keep the order in which the input delivered them
OrderBy(s) ==
    LET n == Len(s)
        pos(i) == 1 + Cardinality({j \in 1..n :
                        \/ FinalOrderLess(s[j], s[i])
                        \/ (~FinalOrderLess(s[i], s[j]) /\ j < i)})
    IN  [p \in 1..n |-> s[CHOOSE i \in 1..n : pos(i) = p]]

\* ROW_NUMBER() OVER (PARTITION BY ... ORDER BY ...) of row i of s
RowNumber(s, i) ==
    1 + Cardinality({j \in 1..Len(s) :
            /\ SamePartition(s[j], s[i])
            /\ \/ PartitionOrderLess(s[j], s[i])
               \/ (~PartitionOrderLess(s[i], s[j]) /\ j < i)})

\* CTE best_per_section restricted to WHERE rn = 1, in delivery order
best_per_section(s) ==
    LET idx == {i \in 1..Len(s) : RowNumber(s, i) = 1}
        nth(k) == CHOOSE i \in idx : Cardinality({j \in idx : j < i}) = k - 1
    IN  [k \in 1..Cardinality(idx) |-> s[nth(k)]]

\* variant: the two parameters bound in the opposite order
LimitOffset_Swapped(s, limit, offset) ==
    SubSeq(s, limit + 1, Min2(Len(s), limit + offset))

\* LIMIT %s OFFSET %s
LimitOffset(s, limit, offset) ==
    SubSeq(s, offset + 1, Min2(Len(s), offset + limit))

\* variant: a cursor is returned for every non-empty page
NextOffset_AnyRows(offset, n, top_k) == IF n > 0 THEN offset + n ELSE None

\* 6) Pagination helper
NextOffset(offset, n, top_k) == IF n = top_k THEN offset + n ELSE None

\* 5) Post-process results: the fields of out_rows the properties read
out_row(r) ==
    [chunk_id     |-> r.chunk_id,
     dist         |-> r.dist,
     document_id  |-> r.document_id,
     section_path |-> r.section_path,
     chunk_index  |-> r.chunk_index]

\* the response built from the relations of the query
response(payload, candidates, survivors, final) ==
    [payload     |-> payload,
     candidates  |-> Range(candidates),
     survivors   |-> Range(survivors),
     results     |-> [i \in 1..Len(final) |-> out_row(final[i])],
     next_offset |-> NextOffset(payload.offset, Len(final), payload.top_k)]

\* CTE final over the survivors
final_page(survivors, payload) ==
    LimitOffset(OrderBy(survivors), payload.top_k, payload.offset)

query(payload, candidates, survivors) ==
    response(payload, candidates, survivors, final_page(survivors, payload))

semantic_search(scan, payload) ==
    LET candidates == scored(scan, payload)
    IN  query(payload, candidates, best_per_section(candidates))

\* no request served yet (top_k = 0 is not a valid SearchIn)
NoSearch ==
    [payload     |-> [top_k |-> 0, offset |-> 0, document_id |-> None, min_chars |-> 0,
                      exclude_section_exact |-> <<>>],
     candidates  |-> {},
     survivors   |-> {},
     results     |-> <<>>,
     next_offset |-> None]


\* chunk_by_toc has not run
NoToc == [ranges |-> <<>>, stacks |-> <<>>, paths |-> <<>>, done |-> FALSE]

\* _split_by_paragraphs has not been called
NoSplit == [text |-> <<>>, max_chars |-> 0, pieces |-> <<>>, done |-> FALSE]

\* normalize_text has not been called
NoNorm == [s |-> <<>>, out |-> <<>>]

\* no chunk-toc request yet
NoRun ==
    [status |-> "idle", max_chars |-> 0, sections |-> <<>>, chunks_rows |-> <<>>,
     written |-> 0, before |-> {}, chunks_created |-> 0, left |-> 0]

\* paginate_search has not been called
NoPager ==
    [top_k |-> 0, offset |-> 0, seen |-> {}, all_rows |-> <<>>, requests |-> <<>>,
     responses |-> <<>>, arrived |-> <<>>, status |-> "idle"]

\* no embed request yet
NoEmbed ==
    [status |-> "idle", kind |-> "", rows |-> <<>>, batch_size |-> 0, batch |-> 0,
     embedded |-> 0, skipped |-> 0, before |-> {}, left |-> 0]

\* a store-toc request that has not arrived yet
NoTocTx == [status |-> "idle", rows |-> <<>>, snapshot |-> {}, deleted |-> {},
            inserted |-> {}]

\* no document endpoint called yet
NoReply == [endpoint |-> "", doc_id |-> 0, status |-> 0, before |-> <<>>]

\* the variables of the embedding store, the TOC store and the endpoints
serviceVars == <<chunk_ids, chunk_embeddings, embed, document_toc, toc_tx,
                 documents, reply>>

ServiceIdle ==
    /\ chunk_ids = <<>>
    /\ chunk_embeddings = {}
    /\ embed = NoEmbed
    /\ document_toc = {}
    /\ toc_tx = <<>>
    /\ documents = <<>>
    /\ reply = NoReply

\* the variables of the splitter, normalizer, chunk store and paginator
restVars == <<split, norm, document_pages, document_chunks, run, pager>>

RestIdle ==
    /\ split = NoSplit
    /\ norm = NoNorm
    /\ document_pages = <<>>
    /\ document_chunks = {}
    /\ run = NoRun
    /\ pager = NoPager

\* ------------------------------------------------------------------------
\* Actions of the search specification
\* ------------------------------------------------------------------------
\* chunk_index of the next chunk of section g of a document: chunk_by_toc
\* numbers the pieces of a section from 0
next_chunk_index(rows, g) ==
    Cardinality({c \in rows : c.document_id = g[1] /\ c.section_path = g[2]})

\* A chunk row of document_chunks receives its embedding row: it becomes
\* visible to the join of semantic_search.  id is the SERIAL primary key.
InsertEmbeddedChunk ==
    /\ search = NoSearch
    /\ Cardinality(embedded) < MaxChunks
    /\ \E g \in StoredSections, dist \in Dists, len \in Lens, hit \in {0, 1} :
          embedded' = embedded \cup
              {[chunk_id     |-> Cardinality(embedded) + 1,
                document_id  |-> g[1],
                section_path |-> g[2],
                chunk_index  |-> next_chunk_index(embedded, g),
                content_len  |-> len,
                dist         |-> dist,
                lexical_hit  |-> hit]}
    /\ UNCHANGED <<search, entries, page_count, toc>>
    /\ UNCHANGED restVars
    /\ UNCHANGED serviceVars

\* POST /search: the handler runs the query once; the database delivers the
\* joined rows in an order of its choosing.
Search ==
    /\ search = NoSearch
    /\ \E top_k \in 1..MaxTopK, offset \in 0..MaxOffset, f \in FilterSettings :
          \E scan \in ScanOrders(embedded) :
              search' = semantic_search(scan,
                            [top_k |-> top_k, offset |-> offset,
                             document_id |-> f.document_id, min_chars |-> f.min_chars,
                             exclude_section_exact |-> f.exclude_section_exact])
    /\ UNCHANGED <<embedded, entries, page_count, toc>>
    /\ UNCHANGED restVars
    /\ UNCHANGED serviceVars

\* the response has been sent; the service is ready for the next request
ReturnSearch ==
    /\ search # NoSearch
    /\ search' = NoSearch
    /\ UNCHANGED <<embedded, entries, page_count, toc>>
    /\ UNCHANGED restVars
    /\ UNCHANGED serviceVars

InitSearch ==
    /\ embedded = {}
    /\ search = NoSearch
    /\ entries = <<>>
    /\ page_count = 0
    /\ toc = NoToc
    /\ RestIdle
    /\ ServiceIdle

NextSearch == InsertEmbeddedChunk \/ Search \/ ReturnSearch

SpecSearch == InitSearch /\ [][NextSearch]_vars

\* ------------------------------------------------------------------------
\* chunk_by_toc: page ranges and section paths
\* ------------------------------------------------------------------------
\* variant: the scan stops only at a strictly shallower heading
RECURSIVE ScanEnd_StrictlyHigher(_, _, _, _)
ScanEnd_StrictlyHigher(es, idx, j, pages) ==
    IF j > Len(es)
    THEN pages
    ELSE IF es[j].level < es[idx].level
         THEN Max2(es[j].page_from - 1, es[idx].page_from)
         ELSE ScanEnd_StrictlyHigher(es, idx, j + 1, pages)

\* variant: the scan stops at the next entry whatever its level
RECURSIVE ScanEnd_NextEntry(_, _, _, _)
ScanEnd_NextEntry(es, idx, j, pages) ==
    IF j > Len(es)
    THEN pages
    ELSE Max2(es[j].page_from - 1, es[idx].page_from)

\* variant: the end is the page on which the closing heading starts
RECURSIVE ScanEnd_Inclusive(_, _, _, _)
ScanEnd_Inclusive(es, idx, j, pages) ==
    IF j > Len(es)
    THEN pages
    ELSE IF es[j].level <= es[idx].level
         THEN Max2(es[j].page_from, es[idx].page_from)
         ELSE ScanEnd_Inclusive(es, idx, j + 1, pages)

\* the inner loop of step 3 from position j on: end for the entry at idx
RECURSIVE ScanEnd(_, _, _, _)
ScanEnd(es, idx, j, pages) ==
    IF j > Len(es)
    THEN pages
    ELSE IF es[j].level <= es[idx].level
         THEN Max2(es[j].page_from - 1, es[idx].page_from)
         ELSE ScanEnd(es, idx, j + 1, pages)

\* 3) Compute page ranges by "next same-or-higher"
compute_ranges(es, pages) ==
    [idx \in 1..Len(es) |->
        [level       |-> es[idx].level,
         title       |-> es[idx].title,
         start       |-> es[idx].page_from,
         end         |-> ScanEnd(es, idx, idx + 1, pages),
         order_index |-> es[idx].order_index]]

\* variant: the stack is padded but never cut back to the level
PushHeading_NoTruncate(stack, lvl, title) ==
    LET padded == IF Len(stack) < lvl
                  THEN stack \o [k \in 1..(lvl - Len(stack)) |-> ""]
                  ELSE stack
    IN  [padded EXCEPT ![lvl] = title]

\* one iteration of the loop of step 4 on the stack
PushHeading(stack, lvl, title) ==
    LET padded == IF Len(stack) < lvl
                  THEN stack \o [k \in 1..(lvl - Len(stack)) |-> ""]
                  ELSE stack
        cut    == SubSeq(padded, 1, lvl)
    IN  [cut EXCEPT ![lvl] = title]

\* the stack after the first i ranges went through the loop of step 4
RECURSIVE StackAfter(_, _)
StackAfter(rs, i) ==
    IF i = 0 THEN <<>>
    ELSE PushHeading(StackAfter(rs, i - 1), rs[i].level, rs[i].title)

\* " > ".join(parts)
RECURSIVE JoinPath(_)
JoinPath(parts) ==
    IF Len(parts) = 0 THEN ""
    ELSE IF Len(parts) = 1 THEN parts[1]
    ELSE JoinPath(SubSeq(parts, 1, Len(parts) - 1)) \o " > " \o parts[Len(parts)]

\* " > ".join(s for s in stack if s)
section_path_of(stack) == JoinPath(SelectSeq(stack, LAMBDA t : t # ""))

\* steps 3 and 4 of chunk_by_toc; an empty stored TOC returns before them
chunk_by_toc(es, pages) ==
    LET ranges == compute_ranges(es, pages)
    IN  [ranges |-> ranges,
         stacks |-> [i \in 1..Len(ranges) |-> StackAfter(ranges, i)],
         paths  |-> [i \in 1..Len(ranges) |-> section_path_of(StackAfter(ranges, i))],
         done   |-> TRUE]

\* ------------------------------------------------------------------------
\* The TOC specification: a stored TOC and a PDF page count, then one run
\* ------------------------------------------------------------------------
Heading(l, t, p, oi) == [level |-> l, title |-> t, page_from |-> p, order_index |-> oi]

\* rows store_document_toc writes for an outline of n items: order_index is
\* the position in the outline
StoredToc(n, outline) ==
    [i \in 1..n |-> Heading(outline[i][1], outline[i][2], outline[i][3], i)]

\* the documented example: A p1, A.1 p2, A.2 p5, B p9 in a PDF of 10 pages
ScenarioToc ==
    <<Heading(1, "A", 1, 1), Heading(2, "A.1", 2, 2),
      Heading(2, "A.2", 5, 3), Heading(1, "B", 9, 4)>>

ChunkByToc ==
    /\ ~toc.done
    /\ toc' = chunk_by_toc(entries, page_count)
    /\ UNCHANGED <<embedded, search, entries, page_count>>
    /\ UNCHANGED restVars
    /\ UNCHANGED serviceVars

\* Ranges: the range computation reads level and page_from only, so the
\* outlines vary in those and carry one title.
InitTocRanges ==
    /\ embedded = {}
    /\ search = NoSearch
    /\ \/ /\ \E n \in 0..MaxToc :
                \E outline \in [1..n -> (1..MaxLevel) \X {"A"} \X (1..MaxPage)] :
                    entries = StoredToc(n, outline)
          /\ page_count \in {MaxPage - 1, MaxPage}
       \/ entries = ScenarioToc /\ page_count = 10
    /\ toc = NoToc
    /\ RestIdle
    /\ ServiceIdle

\* Paths: the path computation reads level and title only, so the outlines
\* vary in those and all headings are on page 1 of a one-page PDF.
InitTocPaths ==
    /\ embedded = {}
    /\ search = NoSearch
    /\ \E n \in 0..MaxToc :
          \E outline \in [1..n -> (1..MaxLevel) \X Titles \X {1}] :
              entries = StoredToc(n, outline)
    /\ page_count = 1
    /\ toc = NoToc
    /\ RestIdle
    /\ ServiceIdle

NextToc == ChunkByToc

SpecTocRanges == InitTocRanges /\ [][NextToc]_vars

SpecTocPaths == InitTocPaths /\ [][NextToc]_vars

\* ------------------------------------------------------------------------
\* Text: a string is the sequence of its characters
\* ------------------------------------------------------------------------
\* the characters the texts of the model are written in: a letter, a blank
\* and a line feed
Chars == {"a", " ", "\n"}

\* whitespace as str.strip() sees it
IsSpace(c) == c \in {" ", "\n"}

RECURSIVE lstrip(_)
lstrip(t) == IF t # <<>> /\ IsSpace(Head(t)) THEN lstrip(Tail(t)) ELSE t

RECURSIVE rstrip(_)
rstrip(t) ==
    IF t # <<>> /\ IsSpace(t[Len(t)]) THEN rstrip(SubSeq(t, 1, Len(t) - 1)) ELSE t

\* str.strip()
strip(t) == rstrip(lstrip(t))

\* the paragraph separator "\n\n"
ParaSep == <<"\n", "\n">>

\* position of the leftmost "\n\n" in t, 0 if there is none
FirstSep(t) ==
    LET at == {i \in 1..(Len(t) - 1) : t[i] = "\n" /\ t[i + 1] = "\n"}
    IN  IF at = {} THEN 0 ELSE CHOOSE i \in at : \A k \in at : i <= k

\* text.split("\n\n"): non-overlapping separators, scanned from the left
RECURSIVE split_sep(_)
split_sep(t) ==
    LET i == FirstSep(t)
    IN  IF i = 0 THEN <<t>>
        ELSE <<SubSeq(t, 1, i - 1)>> \o split_sep(SubSeq(t, i + 2, Len(t)))

\* sep.join(parts)
RECURSIVE join(_, _)
join(sep, parts) ==
    IF Len(parts) = 0 THEN <<>>
    ELSE IF Len(parts) = 1 THEN parts[1]
    ELSE parts[1] \o sep \o join(sep, Tail(parts))

\* ------------------------------------------------------------------------
\* _split_by_paragraphs
\* ------------------------------------------------------------------------
\* paras = [p.strip() for p in text.split("\n\n") if p.strip()]
paras_of(text) ==
    LET parts == split_sep(text)
    IN  SelectSeq([i \in DOMAIN parts |-> strip(parts[i])], LAMBDA p : p # <<>>)

\* [p[i:i+max_chars].strip() for i in range(0, len(p), max_chars)]
hard_split(p, max_chars) ==
    [k \in 1..((Len(p) + max_chars - 1) \div max_chars) |->
        strip(SubSeq(p, (k - 1) * max_chars + 1, Min2(k * max_chars, Len(p))))]

\* variant: the separator is not counted when a paragraph joins the buffer
Fits_NoSeparator(buf, p, max_chars) == Len(buf) + Len(p) <= max_chars

\* len(buf) + (2 if buf else 0) + len(p) <= max_chars
Fits(buf, p, max_chars) ==
    Len(buf) + (IF buf # <<>> THEN 2 ELSE 0) + Len(p) <= max_chars

\* chunks.append(buf.strip()) under "if buf"
Flush(chunks, buf) == IF buf # <<>> THEN Append(chunks, strip(buf)) ELSE chunks

\* the loop over paras from position i on, and the final flush
RECURSIVE split_loop(_, _, _, _, _)
split_loop(paras, i, chunks, buf, max_chars) ==
    IF i > Len(paras)
    THEN Flush(chunks, buf)
    ELSE LET p == paras[i]
         IN  IF Len(p) > max_chars
             THEN split_loop(paras, i + 1,
                             Flush(chunks, buf) \o hard_split(p, max_chars),
                             <<>>, max_chars)
             ELSE IF Fits(buf, p, max_chars)
                  THEN split_loop(paras, i + 1, chunks,
                                  IF buf # <<>> THEN buf \o ParaSep \o p ELSE p,
                                  max_chars)
                  ELSE split_loop(paras, i + 1, Append(chunks, strip(buf)), p,
                                  max_chars)

split_by_paragraphs(text, max_chars) ==
    IF Len(text) <= max_chars
    THEN IF text # <<>> THEN <<text>> ELSE <<>>
    ELSE split_loop(paras_of(text), 1, <<>>, <<>>, max_chars)

\* ------------------------------------------------------------------------
\* The splitter specification: a text and a limit, then one call
\* ------------------------------------------------------------------------
SplitByParagraphs ==
    /\ ~split.done
    /\ split' = [split EXCEPT !.pieces = split_by_paragraphs(split.text, split.max_chars),
                              !.done = TRUE]
    /\ UNCHANGED <<embedded, search, entries, page_count, toc>>
    /\ UNCHANGED <<norm, document_pages, document_chunks, run, pager>>
    /\ UNCHANGED serviceVars

InitSplit ==
    /\ embedded = {}
    /\ search = NoSearch
    /\ entries = <<>>
    /\ page_count = 0
    /\ toc = NoToc
    /\ \E n \in 0..MaxLen, max_chars \in 1..MaxChars :
          \E text \in [1..n -> Chars] :
              split = [text |-> text, max_chars |-> max_chars, pieces |-> <<>>,
                       done |-> FALSE]
    /\ norm = NoNorm
    /\ document_pages = <<>>
    /\ document_chunks = {}
    /\ run = NoRun
    /\ pager = NoPager
    /\ ServiceIdle

NextSplit == SplitByParagraphs

SpecSplit == InitSplit /\ [][NextSplit]_vars

\* ------------------------------------------------------------------------
\* chunk_by_toc: building the chunk rows and writing them
\* ------------------------------------------------------------------------
\* pages_text = [page_map[p] for p in range(start, end + 1) if p in page_map],
\* from page p on
RECURSIVE pages_text(_, _, _)
pages_text(page_map, p, end) ==
    IF p > end THEN <<>>
    ELSE (IF p \in DOMAIN page_map THEN <<page_map[p]>> ELSE <<>>)
         \o pages_text(page_map, p + 1, end)

\* variant: the pages of a range are gathered from the last page down
RECURSIVE section_pages_Descending(_, _, _)
section_pages_Descending(page_map, start, end) ==
    IF end < start THEN <<>>
    ELSE (IF end \in DOMAIN page_map THEN <<page_map[end]>> ELSE <<>>)
         \o section_pages_Descending(page_map, start, end - 1)

section_pages(page_map, start, end) == pages_text(page_map, start, end)

\* full_text = "\n\n".join(pages_text).strip()
full_text_of(page_map, start, end) ==
    strip(join(ParaSep, section_pages(page_map, start, end)))

\* one iteration of the loop of step 6: the text of the range and its pieces
\* (none when the text is empty)
section_of(r, section_path, page_map, max_chars) ==
    LET full_text == full_text_of(page_map, r.start, r.end)
    IN  [section_path |-> section_path,
         level        |-> r.level,
         start        |-> r.start,
         end          |-> r.end,
         full_text    |-> full_text,
         pieces       |-> IF full_text = <<>> THEN <<>>
                          ELSE split_by_paragraphs(full_text, max_chars)]

\* the rows appended for one section: (doc_id, section_path, lvl, start, end, ci, piece)
rows_of(doc_id, sec) ==
    [k \in 1..Len(sec.pieces) |->
        [document_id  |-> doc_id,
         section_path |-> sec.section_path,
         level        |-> sec.level,
         start_page   |-> sec.start,
         end_page     |-> sec.end,
         chunk_index  |-> k - 1,
         content      |-> sec.pieces[k]]]

\* chunks_rows after the first i sections
RECURSIVE rows_upto(_, _, _)
rows_upto(doc_id, sections, i) ==
    IF i = 0 THEN <<>>
    ELSE rows_upto(doc_id, sections, i - 1) \o rows_of(doc_id, sections[i])

\* steps 3 to 6 of chunk_by_toc up to the write
build_chunks(doc_id, es, pages, page_map, max_chars) ==
    LET t        == chunk_by_toc(es, pages)
        sections == [i \in 1..Len(t.ranges) |->
                        section_of(t.ranges[i], t.paths[i], page_map, max_chars)]
    IN  [sections    |-> sections,
         chunks_rows |-> rows_upto(doc_id, sections, Len(sections))]

\* the conflict target of the upsert: UNIQUE (document_id, section_path, chunk_index)
uq_doc_chunks(r) == <<r.document_id, r.section_path, r.chunk_index>>

\* INSERT ... ON CONFLICT (document_id, section_path, chunk_index) DO UPDATE
upsert(table, r) == {x \in table : uq_doc_chunks(x) # uq_doc_chunks(r)} \cup {r}

\* the statement run for the first k parameter rows, in order
RECURSIVE executemany(_, _, _)
executemany(table, rows, k) ==
    IF k = 0 THEN table ELSE upsert(executemany(table, rows, k - 1), rows[k])

\* variant: the connection commits every statement
committed_after_Autocommit(table, r) == upsert(table, r)

\* committed rows after one statement of the batch: the connection is not in
\* autocommit mode, the statement's effect stays inside the transaction
committed_after(table, r) == table

\* the document all requests are about
DocId == 1

\* POST /{doc_id}/chunk-toc up to the write: the rows are built; with no
\* stored TOC or no rows the handler returns, otherwise it opens the
\* connection for the batch
ChunkToc ==
    /\ run.status \in {"idle", "done", "failed"}
    /\ run.left > 0
    /\ \E max_chars \in ChunkMaxChars :
          LET b == build_chunks(DocId, entries, page_count, document_pages, max_chars)
          IN  run' = [status         |-> IF b.chunks_rows = <<>> THEN "done" ELSE "writing",
                      max_chars      |-> max_chars,
                      sections       |-> b.sections,
                      chunks_rows    |-> b.chunks_rows,
                      written        |-> 0,
                      before         |-> document_chunks,
                      chunks_created |-> IF b.chunks_rows = <<>> THEN 0 ELSE None,
                      left           |-> run.left - 1]
    /\ UNCHANGED <<embedded, search, entries, page_count, toc, split, norm>>
    /\ UNCHANGED <<document_pages, document_chunks, pager>>
    /\ UNCHANGED serviceVars

\* cur.executemany: the statement for the next row succeeds
ExecuteRow ==
    /\ run.status = "writing"
    /\ run.written < Len(run.chunks_rows)
    /\ run' = [run EXCEPT !.written = @ + 1]
    /\ document_chunks' = committed_after(document_chunks, run.chunks_rows[run.written + 1])
    /\ UNCHANGED <<embedded, search, entries, page_count, toc, split, norm>>
    /\ UNCHANGED <<document_pages, pager>>
    /\ UNCHANGED serviceVars

\* conn.commit() and the response with chunks_created = total_chunks
CommitBatch ==
    /\ run.status = "writing"
    /\ run.written = Len(run.chunks_rows)
    /\ document_chunks' = executemany(document_chunks, run.chunks_rows, Len(run.chunks_rows))
    /\ run' = [run EXCEPT !.status = "done", !.chunks_created = Len(run.chunks_rows)]
    /\ UNCHANGED <<embedded, search, entries, page_count, toc, split, norm>>
    /\ UNCHANGED <<document_pages, pager>>
    /\ UNCHANGED serviceVars

\* a statement of the batch or the commit raises: the connection block is
\* left by the exception, the transaction is rolled back, the handler
\* answers 500
FailBatch ==
    /\ run.status = "writing"
    /\ run' = [run EXCEPT !.status = "failed"]
    /\ UNCHANGED <<embedded, search, entries, page_count, toc, split, norm>>
    /\ UNCHANGED <<document_pages, document_chunks, pager>>
    /\ UNCHANGED serviceVars

\* POST /{doc_id}/store-toc for a PDF with a different outline: the stored
\* rows are deleted and the new ones inserted
StoreToc ==
    /\ run.status \in {"done", "failed"}
    /\ run.left > 0
    /\ \E n \in 1..MaxRunToc :
          \E outline \in [1..n -> RunLevels \X {"A"} \X {1}] :
              /\ entries' = StoredToc(n, outline)
              /\ entries' # entries
    /\ UNCHANGED <<embedded, search, page_count, toc, split, norm>>
    /\ UNCHANGED <<document_pages, document_chunks, run, pager>>
    /\ UNCHANGED serviceVars

\* rows parse_pages upserts for a PDF of n pages with the given texts
ParsedPages(n, texts) == [p \in 1..n |-> texts[p]]

\* POST /{doc_id}/parse-pages after the text of the PDF changed
ParsePages ==
    /\ run.status \in {"done", "failed"}
    /\ run.left > 0
    /\ \E texts \in [1..page_count -> RunTexts] :
          /\ document_pages' = ParsedPages(page_count, texts)
          /\ document_pages' # document_pages
    /\ UNCHANGED <<embedded, search, entries, page_count, toc, split, norm>>
    /\ UNCHANGED <<document_chunks, run, pager>>
    /\ UNCHANGED serviceVars

\* Re-runs: a one-page document, its outline, its page text parsed or not,
\* an empty document_chunks table
InitChunkRuns ==
    /\ embedded = {}
    /\ search = NoSearch
    /\ \E n \in 0..MaxRunToc :
          \E outline \in [1..n -> RunLevels \X {"A"} \X {1}] :
              entries = StoredToc(n, outline)
    /\ page_count = 1
    /\ toc = NoToc
    /\ split = NoSplit
    /\ norm = NoNorm
    /\ \E n \in {0, page_count} :
          \E texts \in [1..n -> RunTexts] : document_pages = ParsedPages(n, texts)
    /\ document_chunks = {}
    /\ run = [NoRun EXCEPT !.left = MaxRuns]
    /\ pager = NoPager
    /\ ServiceIdle

NextChunkRuns ==
    ChunkToc \/ ExecuteRow \/ CommitBatch \/ FailBatch \/ StoreToc \/ ParsePages

SpecChunkRuns == InitChunkRuns /\ [][NextChunkRuns]_vars

\* One run: an outline over the pages of a PDF of BuildPages pages whose
\* first n pages have been parsed, some of them without text
InitChunkBuild ==
    /\ embedded = {}
    /\ search = NoSearch
    /\ \E n \in 0..MaxBuildToc :
          \E outline \in [1..n -> RunLevels \X {"A"} \X (1..BuildPages)] :
              entries = StoredToc(n, outline)
    /\ page_count = BuildPages
    /\ toc = NoToc
    /\ split = NoSplit
    /\ norm = NoNorm
    /\ \E n \in 0..BuildPages :
          \E blank \in [1..n -> BOOLEAN] :
              document_pages =
                  ParsedPages(n, [p \in 1..n |->
                                     IF blank[p] THEN <<>> ELSE <<PageLetters[p]>>])
    /\ document_chunks = {}
    /\ run = [NoRun EXCEPT !.left = 1]
    /\ pager = NoPager
    /\ ServiceIdle

NextChunkBuild == ChunkToc \/ ExecuteRow \/ CommitBatch \/ FailBatch

SpecChunkBuild == InitChunkBuild /\ [][NextChunkBuild]_vars

\* ------------------------------------------------------------------------
\* normalize_text: a string is the sequence of its code points
\* ------------------------------------------------------------------------
\* s.replace(bad, good): non-overlapping occurrences, scanned from the left
RECURSIVE replace(_, _, _)
replace(s, bad, good) ==
    IF Len(s) < Len(bad) THEN s
    ELSE IF SubSeq(s, 1, Len(bad)) = bad
         THEN good \o replace(SubSeq(s, Len(bad) + 1, Len(s)), bad, good)
         ELSE <<Head(s)>> \o replace(Tail(s), bad, good)

\* for bad, good in table.items(): s = s.replace(bad, good), from entry i on
RECURSIVE replace_all(_, _, _)
replace_all(s, table, i) ==
    IF i > Len(table) THEN s
    ELSE replace_all(replace(s, table[i][1], table[i][2]), table, i + 1)

\* _MOJIBAKE_FIXES in insertion order, (bad, good) as code points
MOJIBAKE_FIXES ==
    << << <<226, 8364, 8220>>,  <<8211>> >>,
       << <<226, 8364, 8221>>,  <<8212>> >>,
       << <<226, 8364, 732>>,   <<8216>> >>,
       << <<226, 8364, 8482>>,  <<8217>> >>,
       << <<226, 8364, 339>>,   <<8220>> >>,
       << <<226, 8364, 65533>>, <<8221>> >>,
       << <<226, 8364, 166>>,   <<8230>> >>,
       << <<226, 8364, 162>>,   <<8226>> >>,
       << <<194>>,              <<>> >>,
       << <<194, 169>>,         <<169>> >>,
       << <<194, 174>>,         <<174>> >>,
       << <<226, 8222, 162>>,   <<8482>> >>,
       << <<194, 183>>,         <<183>> >>,
       << <<195, 8212>>,        <<215>> >>,
       << <<226, 710, 8217>>,   <<8722>> >>,
       << <<226, 166>>,         <<8230>> >> >>

\* _CANONICAL in insertion order
CANONICAL ==
    << << <<8216>>, <<39>> >>, << <<8217>>, <<39>> >>, << <<8218>>, <<39>> >>,
       << <<8220>>, <<34>> >>, << <<8221>>, <<34>> >>, << <<8222>>, <<34>> >>,
       << <<8211>>, <<45>> >>, << <<8212>>, <<45>> >>, << <<8226>>, <<45>> >> >>

\* _STRIP_CHARS as replacements by the empty string
STRIP_CHARS ==
    << << <<8203>>, <<>> >>, << <<65279>>, <<>> >>,
       << <<8288>>, <<>> >>, << <<173>>, <<>> >> >>

\* unicodedata.normalize("NFKC", c) for one code point, on the code points
\* that occur in the tables above and in the texts of the model: the
\* horizontal ellipsis, the trade mark sign, the small tilde and the
\* no-break space have compatibility mappings, the others are unchanged
NFKC(c) ==
    CASE c = 8230 -> <<46, 46, 46>>
      [] c = 8482 -> <<84, 77>>
      [] c = 732  -> <<32, 771>>
      [] c = 160  -> <<32>>
      [] OTHER    -> <<c>>

\* unicodedata.normalize("NFKC", s)
RECURSIVE normalize_nfkc(_)
normalize_nfkc(s) == IF s = <<>> THEN <<>> ELSE NFKC(Head(s)) \o normalize_nfkc(Tail(s))

\* whitespace as str.strip() and str.rstrip() see it, among the code points
\* left after step 6
IsBlank(c) == c \in {32, 10, 13, 9}

RECURSIVE rstrip_cp(_)
rstrip_cp(t) ==
    IF t # <<>> /\ IsBlank(t[Len(t)]) THEN rstrip_cp(SubSeq(t, 1, Len(t) - 1)) ELSE t

RECURSIVE lstrip_cp(_)
lstrip_cp(t) == IF t # <<>> /\ IsBlank(Head(t)) THEN lstrip_cp(Tail(t)) ELSE t

\* length of the run of spaces at the head of t
RECURSIVE spaces_at_head(_)
spaces_at_head(t) ==
    IF t # <<>> /\ Head(t) = 32 THEN 1 + spaces_at_head(Tail(t)) ELSE 0

\* re.sub(r"[ ]{3,}", " ", line)
RECURSIVE collapse_spaces(_)
collapse_spaces(line) ==
    IF line = <<>> THEN <<>>
    ELSE LET n == spaces_at_head(line)
         IN  IF n >= 3
             THEN <<32>> \o collapse_spaces(SubSeq(line, n + 1, Len(line)))
             ELSE <<Head(line)>> \o collapse_spaces(Tail(line))

\* s.split("\n")
RECURSIVE split_lines(_)
split_lines(s) ==
    LET at == {i \in 1..Len(s) : s[i] = 10}
    IN  IF at = {} THEN <<s>>
        ELSE LET i == CHOOSE k \in at : \A m \in at : k <= m
             IN  <<SubSeq(s, 1, i - 1)>> \o split_lines(SubSeq(s, i + 1, Len(s)))

\* step 7 and the return: collapse and rstrip every line, join, strip
collapse_lines(s) ==
    LET lines == split_lines(s)
        clean == [i \in DOMAIN lines |-> rstrip_cp(collapse_spaces(lines[i]))]
    IN  rstrip_cp(lstrip_cp(join(<<10>>, clean)))

normalize_text(s) ==
    IF s = <<>> THEN s
    ELSE LET s1 == normalize_nfkc(s)
             s2 == replace_all(s1, MOJIBAKE_FIXES, 1)
             s3 == replace_all(s2, CANONICAL, 1)
             s4 == replace(s3, <<160>>, <<32>>)
             s5 == replace_all(s4, STRIP_CHARS, 1)
             s6 == replace(replace(s5, <<13, 10>>, <<10>>), <<13>>, <<10>>)
         IN  collapse_lines(s6)

\* ------------------------------------------------------------------------
\* The normalizer specification: a string, then normalize_text applied to
\* it and to its own output
\* ------------------------------------------------------------------------
NormalizeText ==
    /\ Len(norm.out) < MaxCalls
    /\ norm' = [norm EXCEPT !.out =
                   Append(@, normalize_text(IF norm.out = <<>> THEN norm.s
                                            ELSE norm.out[Len(norm.out)]))]
    /\ UNCHANGED <<embedded, search, entries, page_count, toc, split>>
    /\ UNCHANGED <<document_pages, document_chunks, run, pager>>
    /\ UNCHANGED serviceVars

InitNorm ==
    /\ embedded = {}
    /\ search = NoSearch
    /\ entries = <<>>
    /\ page_count = 0
    /\ toc = NoToc
    /\ split = NoSplit
    /\ \E n \in 0..MaxNormLen :
          \E s \in [1..n -> CodePoints] : norm = [s |-> s, out |-> <<>>]
    /\ document_pages = <<>>
    /\ document_chunks = {}
    /\ run = NoRun
    /\ pager = NoPager
    /\ ServiceIdle

NextNorm == NormalizeText

SpecNorm == InitNorm /\ [][NextNorm]_vars

\* ------------------------------------------------------------------------
\* paginate_search: the client loop over POST /search
\* ------------------------------------------------------------------------
\* key = (row.get("document_id"), row.get("chunk_index"))
row_key(row) == <<row.document_id, row.chunk_index>>

\* variant: every row of the page is appended
RECURSIVE add_rows_NoDedup(_, _, _)
add_rows_NoDedup(acc, results, i) ==
    IF i > Len(results) THEN acc
    ELSE add_rows_NoDedup([seen     |-> acc.seen \cup {row_key(results[i])},
                           all_rows |-> Append(acc.all_rows, results[i])],
                          results, i + 1)

\* for row in results: append the row unless its key has been seen, from
\* row i on; acc holds seen and all_rows
RECURSIVE add_rows(_, _, _)
add_rows(acc, results, i) ==
    IF i > Len(results) THEN acc
    ELSE add_rows(IF row_key(results[i]) \notin acc.seen
                  THEN [seen     |-> acc.seen \cup {row_key(results[i])},
                        all_rows |-> Append(acc.all_rows, results[i])]
                  ELSE acc,
                  results, i + 1)

\* data.get("next_offset", None)
get_next_offset(data) == IF data.next_offset = Absent THEN None ELSE data.next_offset

\* variant: the loop advances by the number of rows it received
following_offset_ByRows(offset, results, next_offset) == offset + Len(results)

\* offset = next_offset
following_offset(offset, results, next_offset) == next_offset

\* one response body of the endpoint to request k: rows with the given keys
\* (the preview tells on which page a row was served) and a next_offset
response_body(k, keys, next_offset) ==
    [results     |-> [i \in DOMAIN keys |->
                         [document_id   |-> keys[i][1],
                          chunk_index   |-> keys[i][2],
                          preview_clean |-> k]],
     next_offset |-> next_offset]

\* one iteration of the loop on the response body data
loop_body(p, data) ==
    LET acc         == add_rows([seen |-> p.seen, all_rows |-> p.all_rows],
                                data.results, 1)
        next_offset == get_next_offset(data)
    IN  [top_k     |-> p.top_k,
         offset    |-> IF next_offset = None THEN p.offset
                       ELSE following_offset(p.offset, data.results, next_offset),
         seen      |-> acc.seen,
         all_rows  |-> acc.all_rows,
         requests  |-> Append(p.requests, p.offset),
         responses |-> Append(p.responses, data.next_offset),
         arrived   |-> p.arrived \o data.results,
         status    |-> IF next_offset = None THEN "returned" ELSE "running"]

\* httpx.post with the current offset answers 200: the rows are merged and
\* the loop ends or goes on with the next offset
FetchPage ==
    /\ pager.status = "running"
    /\ Len(pager.requests) < MaxRequests
    /\ \E n \in PageSizes, next_offset \in NextOffsets :
          \E keys \in [1..n -> RowKeys] :
              pager' = loop_body(pager,
                           response_body(Len(pager.requests) + 1, keys, next_offset))
    /\ UNCHANGED <<embedded, search, entries, page_count, toc, split, norm>>
    /\ UNCHANGED <<document_pages, document_chunks, run>>
    /\ UNCHANGED serviceVars

\* the endpoint answers with an error status: raise_for_status raises and
\* paginate_search returns nothing
FetchFails ==
    /\ pager.status = "running"
    /\ Len(pager.requests) < MaxRequests
    /\ pager' = [pager EXCEPT !.requests = Append(@, pager.offset),
                              !.responses = Append(@, Absent),
                              !.status = "raised"]
    /\ UNCHANGED <<embedded, search, entries, page_count, toc, split, norm>>
    /\ UNCHANGED <<document_pages, document_chunks, run>>
    /\ UNCHANGED serviceVars

\* paginate_search has been called: offset = 0, seen = set(), all_rows = []
InitPager ==
    /\ embedded = {}
    /\ search = NoSearch
    /\ entries = <<>>
    /\ page_count = 0
    /\ toc = NoToc
    /\ split = NoSplit
    /\ norm = NoNorm
    /\ document_pages = <<>>
    /\ document_chunks = {}
    /\ run = NoRun
    /\ \E top_k \in PagerTopK :
          pager = [NoPager EXCEPT !.status = "running", !.top_k = top_k]
    /\ ServiceIdle

NextPager == FetchPage \/ FetchFails

SpecPager == InitPager /\ [][NextPager]_vars

\* ------------------------------------------------------------------------
\* paginate_search over the /search endpoint of the service
\* ------------------------------------------------------------------------
\* a chunk of some section is stored and embedded before the walk starts
StoreEmbeddedChunk ==
    /\ pager = NoPager
    /\ Cardinality(embedded) < MaxPagedChunks
    /\ \E g \in PagedSections, dist \in PagedDists, hit \in {0, 1} :
          embedded' = embedded \cup
              {[chunk_id     |-> Cardinality(embedded) + 1,
                document_id  |-> g[1],
                section_path |-> g[2],
                chunk_index  |-> next_chunk_index(embedded, g),
                content_len  |-> 80,
                dist         |-> dist,
                lexical_hit  |-> hit]}
    /\ UNCHANGED <<search, entries, page_count, toc>>
    /\ UNCHANGED restVars
    /\ UNCHANGED serviceVars

\* paginate_search(base_url, text, top_k) is called: offset = 0,
\* seen = set(), all_rows = []; the chunk set no longer changes
PaginateSearch ==
    /\ pager = NoPager
    /\ \E top_k \in 1..MaxTopK :
          pager' = [NoPager EXCEPT !.status = "running", !.top_k = top_k]
    /\ UNCHANGED <<embedded, search, entries, page_count, toc, split, norm>>
    /\ UNCHANGED <<document_pages, document_chunks, run>>
    /\ UNCHANGED serviceVars

\* the SearchIn built from the JSON body paginate_search posts: text, top_k,
\* offset and clean_preview are sent, the filters take their defaults
SearchIn(top_k, offset) ==
    [top_k |-> top_k, offset |-> offset, document_id |-> None, min_chars |-> 60,
     exclude_section_exact |-> <<"Dummy PDF file">>]

\* one iteration of the loop: the endpoint runs semantic_search on the posted
\* payload and answers 200 with its response; the rows are merged and the
\* loop ends or goes on with next_offset
SearchPage ==
    /\ pager.status = "running"
    /\ \E scan \in ScanOrders(embedded) :
          LET data == semantic_search(scan, SearchIn(pager.top_k, pager.offset))
          IN  /\ search' = data
              /\ pager' = loop_body(pager, [results     |-> data.results,
                                            next_offset |-> data.next_offset])
    /\ UNCHANGED <<embedded, entries, page_count, toc, split, norm>>
    /\ UNCHANGED <<document_pages, document_chunks, run>>
    /\ UNCHANGED serviceVars

\* the query fails in the database: the endpoint answers 500,
\* raise_for_status raises and paginate_search returns nothing
SearchPageFails ==
    /\ pager.status = "running"
    /\ pager' = [pager EXCEPT !.requests = Append(@, pager.offset),
                              !.responses = Append(@, Absent),
                              !.status = "raised"]
    /\ UNCHANGED <<embedded, search, entries, page_count, toc, split, norm>>
    /\ UNCHANGED <<document_pages, document_chunks, run>>
    /\ UNCHANGED serviceVars

\* an empty store and no walk yet
InitPaging ==
    /\ embedded = {}
    /\ search = NoSearch
    /\ entries = <<>>
    /\ page_count = 0
    /\ toc = NoToc
    /\ RestIdle
    /\ ServiceIdle

NextPaging == StoreEmbeddedChunk \/ PaginateSearch \/ SearchPage \/ SearchPageFails

SpecPaging == InitPaging /\ [][NextPaging]_vars

\* ------------------------------------------------------------------------
\* embed_document and embed_chunk: the chunk_embeddings table
\* ------------------------------------------------------------------------
EMBED_DIM == 1536

\* FakeEmbedder._embed_one: a vector is a function of the text alone; it is
\* written as the text it was computed from and its length
embed_one(text, dim) == [text |-> text, dim |-> dim]

\* the embedding column takes the vector the statement casts to it
column_accepts(vec) == TRUE

\* variant: INSERT without ON CONFLICT
insert_embedding_NoConflict(table, chunk_id, vec) ==
    table \cup {[chunk_id |-> chunk_id, text |-> vec.text, dim |-> vec.dim]}

\* INSERT INTO chunk_embeddings ... ON CONFLICT (chunk_id) DO UPDATE
insert_embedding(table, chunk_id, vec) ==
    {x \in table : x.chunk_id # chunk_id}
        \cup {[chunk_id |-> chunk_id, text |-> vec.text, dim |-> vec.dim]}

\* variant: documents._upsert_embedding without the safety check
documents_upsert_embedding_NoCheck(table, chunk_id, vec) ==
    [raised |-> FALSE, table |-> insert_embedding(table, chunk_id, vec)]

\* documents._upsert_embedding: refuses a vector whose length is not 1536
documents_upsert_embedding(table, chunk_id, vec) ==
    IF vec.dim # 1536 \/ ~column_accepts(vec)
    THEN [raised |-> TRUE, table |-> table]
    ELSE [raised |-> FALSE, table |-> insert_embedding(table, chunk_id, vec)]

\* chunks._upsert_embedding: the statement alone
chunks_upsert_embedding(table, chunk_id, vec) ==
    IF ~column_accepts(vec)
    THEN [raised |-> TRUE, table |-> table]
    ELSE [raised |-> FALSE, table |-> insert_embedding(table, chunk_id, vec)]

\* variant: every statement is committed at once
rolled_back_Autocommit(committed, uncommitted) == uncommitted

\* the connection block is left by an exception: the open transaction is
\* rolled back, the committed rows stay
rolled_back(committed, uncommitted) == committed

\* new keys of rows get the next ids, in statement order (id SERIAL)
RECURSIVE assign_ids(_, _, _)
assign_ids(ids, rows, k) ==
    IF k = 0 THEN ids
    ELSE LET sofar == assign_ids(ids, rows, k - 1)
         IN  IF uq_doc_chunks(rows[k]) \in Range(sofar) THEN sofar
             ELSE Append(sofar, uq_doc_chunks(rows[k]))

\* SELECT id, content FROM document_chunks WHERE document_id = %s ORDER BY id ASC
select_chunks(ids, table) ==
    [i \in 1..Len(ids) |->
        [id      |-> i,
         content |-> (CHOOSE r \in table : uq_doc_chunks(r) = ids[i]).content]]

\* batched(rows, n): the k-th slice
batched(rows, n, k) == SubSeq(rows, (k - 1) * n + 1, Min2(k * n, Len(rows)))

\* number of slices batched(rows, n) yields
batch_count(rows, n) == (Len(rows) + n - 1) \div n

\* the rows of a batch whose text is not blank: ids and texts of the batch
with_text(batch) == SelectSeq(batch, LAMBDA r : strip(r.content) # <<>>)

\* for cid, vec in zip(ids, vecs): _upsert_embedding(...), for the first j
\* pairs or until one raises
RECURSIVE upsert_batch(_, _, _, _)
upsert_batch(table, pairs, dim, j) ==
    IF j = 0 THEN [raised |-> FALSE, table |-> table]
    ELSE LET sofar == upsert_batch(table, pairs, dim, j - 1)
         IN  IF sofar.raised THEN sofar
             ELSE documents_upsert_embedding(sofar.table, pairs[j].id,
                                             embed_one(pairs[j].content, dim))

\* POST /documents/{document_id}/chunk-toc for the document: the rows are
\* built and upserted in one transaction
Rechunk ==
    /\ embed.status # "running"
    /\ run.left > 0
    /\ \E max_chars \in ChunkMaxChars :
          LET b == build_chunks(DocId, entries, page_count, document_pages, max_chars)
              n == Len(b.chunks_rows)
          IN  /\ document_chunks' = executemany(document_chunks, b.chunks_rows, n)
              /\ chunk_ids' = assign_ids(chunk_ids, b.chunks_rows, n)
              /\ run' = [run EXCEPT !.status = "done", !.max_chars = max_chars,
                                    !.chunks_created = n, !.left = @ - 1]
    /\ UNCHANGED <<embedded, search, entries, page_count, toc, split, norm>>
    /\ UNCHANGED <<document_pages, pager>>
    /\ UNCHANGED <<chunk_embeddings, embed, document_toc, toc_tx, documents, reply>>

\* POST /documents/{document_id}/embed: the chunks are selected; 404 when the
\* document has none
EmbedDocument ==
    /\ embed.status # "running"
    /\ embed.left > 0
    /\ \E batch_size \in EmbedBatchSizes :
          LET rows == select_chunks(chunk_ids, document_chunks)
          IN  embed' = [status     |-> IF Len(rows) = 0 THEN "not found" ELSE "running",
                        kind       |-> "document",
                        rows       |-> rows,
                        batch_size |-> batch_size,
                        batch      |-> 1,
                        embedded   |-> 0,
                        skipped    |-> 0,
                        before     |-> chunk_embeddings,
                        left       |-> embed.left - 1]
    /\ UNCHANGED <<embedded, search, entries, page_count, toc, split, norm>>
    /\ UNCHANGED <<document_pages, document_chunks, run, pager>>
    /\ UNCHANGED <<chunk_ids, chunk_embeddings, document_toc, toc_tx, documents, reply>>

\* one iteration of the loop over the batches: the texts are embedded in one
\* call, every vector is upserted and the batch is committed; a refused
\* vector ends the request with the batch rolled back
EmbedBatch ==
    /\ embed.status = "running"
    /\ \E dim \in EmbedDims :
          LET batch == batched(embed.rows, embed.batch_size, embed.batch)
              pairs == with_text(batch)
              res   == upsert_batch(chunk_embeddings, pairs, dim, Len(pairs))
              last  == embed.batch = batch_count(embed.rows, embed.batch_size)
          IN  IF res.raised
              THEN /\ chunk_embeddings' = rolled_back(chunk_embeddings, res.table)
                   /\ embed' = [embed EXCEPT !.status = "refused",
                                             !.skipped = @ + Len(batch) - Len(pairs)]
              ELSE /\ chunk_embeddings' = res.table
                   /\ embed' = [embed EXCEPT
                                   !.status   = IF last THEN "done" ELSE "running",
                                   !.batch    = IF last THEN @ ELSE @ + 1,
                                   !.embedded = @ + Len(pairs),
                                   !.skipped  = @ + Len(batch) - Len(pairs)]
    /\ UNCHANGED <<embedded, search, entries, page_count, toc, split, norm>>
    /\ UNCHANGED <<document_pages, document_chunks, run, pager>>
    /\ UNCHANGED <<chunk_ids, document_toc, toc_tx, documents, reply>>

\* the provider or a statement of the batch fails after j vectors were
\* upserted: the exception leaves the connection block
EmbedBatchFails ==
    /\ embed.status = "running"
    /\ LET batch == batched(embed.rows, embed.batch_size, embed.batch)
           pairs == with_text(batch)
       IN  /\ Len(pairs) > 0
           /\ \E j \in 0..(Len(pairs) - 1) :
                 chunk_embeddings' =
                     rolled_back(chunk_embeddings,
                                 upsert_batch(chunk_embeddings, pairs, EMBED_DIM, j).table)
           /\ embed' = [embed EXCEPT !.status = "failed",
                                     !.skipped = @ + Len(batch) - Len(pairs)]
    /\ UNCHANGED <<embedded, search, entries, page_count, toc, split, norm>>
    /\ UNCHANGED <<document_pages, document_chunks, run, pager>>
    /\ UNCHANGED <<chunk_ids, document_toc, toc_tx, documents, reply>>

\* _fetch_chunk_text: the content of the chunk, when the row exists and the
\* content is not empty
fetch_chunk_text(ids, table, chunk_id) ==
    IF chunk_id \in 1..Len(ids) THEN select_chunks(ids, table)[chunk_id].content
    ELSE <<>>

\* POST /chunks/{chunk_id}/embed: the text is fetched, embedded, upserted and
\* committed; a chunk without text is answered with an error
EmbedChunk ==
    /\ embed.status # "running"
    /\ \E chunk_id \in 1..(Len(chunk_ids) + 1), dim \in EmbedDims :
          LET text == fetch_chunk_text(chunk_ids, document_chunks, chunk_id)
              res  == chunks_upsert_embedding(chunk_embeddings, chunk_id,
                                              embed_one(text, dim))
              ok   == text # <<>> /\ ~res.raised
          IN  /\ chunk_embeddings' =
                     IF ok THEN res.table ELSE rolled_back(chunk_embeddings, res.table)
              /\ embed' = [status     |-> IF ok THEN "done"
                                          ELSE IF res.raised THEN "refused" ELSE "failed",
                           kind       |-> "chunk",
                           rows       |-> <<[id |-> chunk_id, content |-> text]>>,
                           batch_size |-> 1,
                           batch      |-> 1,
                           embedded   |-> IF ok THEN 1 ELSE 0,
                           skipped    |-> 0,
                           before     |-> chunk_embeddings,
                           left       |-> embed.left]
    /\ UNCHANGED <<embedded, search, entries, page_count, toc, split, norm>>
    /\ UNCHANGED <<document_pages, document_chunks, run, pager>>
    /\ UNCHANGED <<chunk_ids, document_toc, toc_tx, documents, reply>>

\* a one-page document with the outline [A p1] and its page text, not
\* chunked and not embedded yet
InitEmbed ==
    /\ embedded = {}
    /\ search = NoSearch
    /\ entries = StoredToc(1, <<<<1, "A", 1>>>>)
    /\ page_count = 1
    /\ toc = NoToc
    /\ split = NoSplit
    /\ norm = NoNorm
    /\ \E text \in EmbedTexts : document_pages = ParsedPages(1, <<text>>)
    /\ document_chunks = {}
    /\ run = [NoRun EXCEPT !.left = MaxRechunks]
    /\ pager = NoPager
    /\ chunk_ids = <<>>
    /\ chunk_embeddings = {}
    /\ embed = [NoEmbed EXCEPT !.left = MaxEmbedRuns]
    /\ document_toc = {}
    /\ toc_tx = <<>>
    /\ documents = <<>>
    /\ reply = NoReply

NextEmbed == Rechunk \/ EmbedDocument \/ EmbedBatch \/ EmbedBatchFails \/ EmbedChunk

SpecEmbed == InitEmbed /\ [][NextEmbed]_vars

\* ------------------------------------------------------------------------
\* store_document_toc: requests for one document, one transaction each
\* ------------------------------------------------------------------------
\* rows.append((doc_id, level, title, page_from, None, i, None)) for the
\* outline of request r; the request that wrote a row is what its SERIAL id
\* and created_at tell
toc_rows(r, n) ==
    [i \in 1..n |-> [run |-> r, level |-> 1, title |-> "A", page_from |-> 1,
                     order_index |-> i]]

\* document_toc takes every row an INSERT hands it
document_toc_accepts(table, rows) == TRUE

\* rows another transaction in progress has deleted and not yet committed
locked_by_others(r) ==
    UNION {toc_tx[o].deleted : o \in {x \in DOMAIN toc_tx : x # r /\ toc_tx[x].status = "open"}}

\* the DELETE goes on when no row of its snapshot is locked by a transaction
\* in progress
may_delete(r) == toc_tx[r].snapshot \cap locked_by_others(r) = {}

\* rows the DELETE removes: those of its snapshot that still exist
delete_targets(snapshot, committed) == snapshot \cap committed

\* the PDF outline is read; without outline the request answers stored = 0
\* and writes nothing
ExtractToc(r) ==
    /\ toc_tx[r].status = "idle"
    /\ \E n \in 0..MaxOutline :
          toc_tx' = [toc_tx EXCEPT ![r].status = IF n = 0 THEN "no toc" ELSE "extracted",
                                   ![r].rows = toc_rows(r, n)]
    /\ UNCHANGED <<embedded, search, entries, page_count, toc>>
    /\ UNCHANGED restVars
    /\ UNCHANGED <<chunk_ids, chunk_embeddings, embed, document_toc, documents, reply>>

\* DELETE FROM document_toc WHERE document_id = %s starts: the statement
\* sees the rows committed by now
BeginDelete(r) ==
    /\ toc_tx[r].status = "extracted"
    /\ toc_tx' = [toc_tx EXCEPT ![r].status = "deleting", ![r].snapshot = document_toc]
    /\ UNCHANGED <<embedded, search, entries, page_count, toc>>
    /\ UNCHANGED restVars
    /\ UNCHANGED <<chunk_ids, chunk_embeddings, embed, document_toc, documents, reply>>

\* the DELETE completes and executemany inserts the rows, inside the
\* transaction
DeleteAndInsert(r) ==
    /\ toc_tx[r].status = "deleting"
    /\ may_delete(r)
    /\ document_toc_accepts(document_toc, toc_tx[r].rows)
    /\ toc_tx' = [toc_tx EXCEPT
                     ![r].status = "open",
                     ![r].deleted = delete_targets(toc_tx[r].snapshot, document_toc),
                     ![r].inserted = Range(toc_tx[r].rows)]
    /\ UNCHANGED <<embedded, search, entries, page_count, toc>>
    /\ UNCHANGED restVars
    /\ UNCHANGED <<chunk_ids, chunk_embeddings, embed, document_toc, documents, reply>>

\* conn.commit() and the answer stored = len(rows)
CommitToc(r) ==
    /\ toc_tx[r].status = "open"
    /\ document_toc' = (document_toc \ toc_tx[r].deleted) \cup toc_tx[r].inserted
    /\ toc_tx' = [toc_tx EXCEPT ![r].status = "stored"]
    /\ UNCHANGED <<embedded, search, entries, page_count, toc>>
    /\ UNCHANGED restVars
    /\ UNCHANGED <<chunk_ids, chunk_embeddings, embed, documents, reply>>

\* a statement or the commit raises: the transaction is rolled back and the
\* request answers 500
AbortToc(r) ==
    /\ toc_tx[r].status \in {"deleting", "open"}
    /\ toc_tx' = [toc_tx EXCEPT ![r].status = "failed", ![r].deleted = {},
                                ![r].inserted = {}]
    /\ UNCHANGED <<embedded, search, entries, page_count, toc>>
    /\ UNCHANGED restVars
    /\ UNCHANGED <<chunk_ids, chunk_embeddings, embed, document_toc, documents, reply>>

\* an empty document_toc and the requests still to come
InitTocStore ==
    /\ embedded = {}
    /\ search = NoSearch
    /\ entries = <<>>
    /\ page_count = 0
    /\ toc = NoToc
    /\ RestIdle
    /\ chunk_ids = <<>>
    /\ chunk_embeddings = {}
    /\ embed = NoEmbed
    /\ document_toc = {}
    /\ toc_tx = [r \in 1..MaxTocRuns |-> NoTocTx]
    /\ documents = <<>>
    /\ reply = NoReply

NextTocStore ==
    \E r \in 1..MaxTocRuns :
        ExtractToc(r) \/ BeginDelete(r) \/ DeleteAndInsert(r) \/ CommitToc(r) \/ AbortToc(r)

SpecTocStore == InitTocStore /\ [][NextTocStore]_vars

\* ------------------------------------------------------------------------
\* The document endpoints called with the id of a stored or a missing document
\* ------------------------------------------------------------------------
\* ids the requests name; no document has id 2
DocIds == {1, 2}
\* files that exist on disk, and the values of payload.local_path
OnDisk == {"doc.pdf"}
LocalPaths == {"doc.pdf", "gone.pdf"}
\* the PDF: one page with the text "a a", the outline [A p1] or none
PdfText == <<"a", " ", "a">>
PdfOutlines == {<<>>, <<<<1, "A", 1>>>>}

\* what the endpoints read and write
Stored == <<documents, entries, document_pages, document_chunks>>

answer(endpoint, doc_id, status) ==
    [endpoint |-> endpoint, doc_id |-> doc_id, status |-> status, before |-> Stored]

\* try: ... except Exception as e: raise HTTPException(500): an HTTPException
\* raised inside the block is an Exception and is answered as 500
except_Exception(status) == IF status = 200 THEN 200 ELSE 500

\* try: ... except HTTPException: raise / except Exception: 500
except_HTTPException(status) == status

\* SELECT ... FROM documents WHERE id = %s: 404 without row
lookup(doc_id) == IF doc_id \in DOMAIN documents THEN 200 ELSE 404

\* the checks on local_path that follow the lookup
pdf_status(doc_id, pdf_ok) ==
    IF lookup(doc_id) # 200 THEN 404
    ELSE IF documents[doc_id].local_path = NULL
            \/ documents[doc_id].local_path \notin OnDisk THEN 400
    ELSE IF ~pdf_ok THEN 500
    ELSE 200

\* GET /documents/{doc_id}
GetDocument ==
    /\ \E doc_id \in DocIds :
          reply' = answer("get_document", doc_id, except_Exception(lookup(doc_id)))
    /\ UNCHANGED <<embedded, search, entries, page_count, toc>>
    /\ UNCHANGED restVars
    /\ UNCHANGED <<chunk_ids, chunk_embeddings, embed, document_toc, toc_tx, documents>>

\* POST /documents/{doc_id}/set-local-path
SetLocalPath ==
    /\ \E doc_id \in DocIds, lp \in LocalPaths :
          IF lp \notin OnDisk
          THEN /\ reply' = answer("set_local_path", doc_id, 400)
               /\ UNCHANGED documents
          ELSE /\ reply' = answer("set_local_path", doc_id, except_Exception(lookup(doc_id)))
               /\ documents' = IF lookup(doc_id) = 200
                               THEN [documents EXCEPT ![doc_id].local_path = lp]
                               ELSE documents
    /\ UNCHANGED <<embedded, search, entries, page_count, toc>>
    /\ UNCHANGED restVars
    /\ UNCHANGED <<chunk_ids, chunk_embeddings, embed, document_toc, toc_tx>>

\* POST /documents/{doc_id}/download: the file is fetched and saved, or the
\* download fails with 502
DownloadDocument ==
    /\ \E doc_id \in DocIds, fetched \in BOOLEAN :
          LET status == IF lookup(doc_id) # 200 THEN 404
                        ELSE IF ~fetched THEN 502 ELSE 200
          IN  /\ reply' = answer("download_document", doc_id, except_HTTPException(status))
              /\ documents' = IF status = 200
                              THEN [documents EXCEPT ![doc_id].local_path = "doc.pdf"]
                              ELSE documents
    /\ UNCHANGED <<embedded, search, entries, page_count, toc>>
    /\ UNCHANGED restVars
    /\ UNCHANGED <<chunk_ids, chunk_embeddings, embed, document_toc, toc_tx>>

\* GET /documents/{doc_id}/toc
GetDocumentToc ==
    /\ \E doc_id \in DocIds, pdf_ok \in BOOLEAN :
          reply' = answer("get_document_toc", doc_id,
                          except_HTTPException(pdf_status(doc_id, pdf_ok)))
    /\ UNCHANGED <<embedded, search, entries, page_count, toc>>
    /\ UNCHANGED restVars
    /\ UNCHANGED <<chunk_ids, chunk_embeddings, embed, document_toc, toc_tx, documents>>

\* POST /documents/{doc_id}/store-toc: the stored TOC is replaced by the
\* outline of the PDF; a PDF without outline leaves it alone
StoreDocumentToc ==
    /\ \E doc_id \in DocIds, pdf_ok \in BOOLEAN, outline \in PdfOutlines :
          LET status == pdf_status(doc_id, pdf_ok)
          IN  /\ reply' = answer("store_document_toc", doc_id, except_HTTPException(status))
              /\ entries' = IF status = 200 /\ outline # <<>>
                            THEN StoredToc(Len(outline), outline)
                            ELSE entries
    /\ UNCHANGED <<embedded, search, page_count, toc>>
    /\ UNCHANGED restVars
    /\ UNCHANGED <<chunk_ids, chunk_embeddings, embed, document_toc, toc_tx, documents>>

\* POST /documents/{doc_id}/parse-pages: the text of every page is upserted
ParseDocumentPages ==
    /\ \E doc_id \in DocIds, pdf_ok \in BOOLEAN :
          LET status == pdf_status(doc_id, pdf_ok)
          IN  /\ reply' = answer("parse_pages", doc_id, except_HTTPException(status))
              /\ document_pages' = IF status = 200
                                   THEN ParsedPages(page_count, [p \in 1..page_count |-> PdfText])
                                   ELSE document_pages
    /\ UNCHANGED <<embedded, search, entries, page_count, toc, split, norm>>
    /\ UNCHANGED <<document_chunks, run, pager>>
    /\ UNCHANGED <<chunk_ids, chunk_embeddings, embed, document_toc, toc_tx, documents>>

\* POST /documents/{doc_id}/chunk-toc: the chunks of the stored TOC are
\* built and upserted; without stored TOC nothing is written
ChunkDocumentByToc ==
    /\ \E doc_id \in DocIds, pdf_ok \in BOOLEAN, max_chars \in ChunkMaxChars :
          LET status == pdf_status(doc_id, pdf_ok)
              b      == build_chunks(doc_id, entries, page_count, document_pages, max_chars)
          IN  /\ reply' = answer("chunk_by_toc", doc_id, except_HTTPException(status))
              /\ document_chunks' =
                     IF status = 200 /\ entries # <<>>
                     THEN executemany(document_chunks, b.chunks_rows, Len(b.chunks_rows))
                     ELSE document_chunks
    /\ UNCHANGED <<embedded, search, entries, page_count, toc, split, norm>>
    /\ UNCHANGED <<document_pages, run, pager>>
    /\ UNCHANGED <<chunk_ids, chunk_embeddings, embed, document_toc, toc_tx, documents>>

\* document 1 is registered, with no local_path or one whose file is gone;
\* nothing of it is stored yet
InitEndpoints ==
    /\ embedded = {}
    /\ search = NoSearch
    /\ entries = <<>>
    /\ page_count = 1
    /\ toc = NoToc
    /\ RestIdle
    /\ chunk_ids = <<>>
    /\ chunk_embeddings = {}
    /\ embed = NoEmbed
    /\ document_toc = {}
    /\ toc_tx = <<>>
    /\ \E lp \in {NULL, "gone.pdf"} : documents = (1 :> [local_path |-> lp])
    /\ reply = NoReply

NextEndpoints ==
    \/ GetDocument \/ SetLocalPath \/ DownloadDocument \/ GetDocumentToc
    \/ StoreDocumentToc \/ ParseDocumentPages \/ ChunkDocumentByToc

SpecEndpoints == InitEndpoints /\ [][NextEndpoints]_vars

\* ------------------------------------------------------------------------
\* Properties of semantic_search
\* ------------------------------------------------------------------------
Served == search # NoSearch

\* the grouping key of the diversity step, a null section_path read as ''
GroupKey(r) == <<r.document_id, IF r.section_path = NULL THEN "" ELSE r.section_path>>

\* C1: the one-per-group survivors that semantic_search orders and paginates
\* hold no two entries with the same (document_id, section_path), a null
\* section_path counting as the empty string; hence no returned page holds
\* two results of the same document and section.
C1_DiversityReduction ==
    Served =>
        /\ \A a, b \in search.survivors : a # b => GroupKey(a) # GroupKey(b)
        /\ \A i, j \in 1..Len(search.results) :
               i # j => GroupKey(search.results[i]) # GroupKey(search.results[j])

\* a group holding a row with a NULL and a row with a '' section_path was
\* reduced to its one survivor, which was returned
C1_Witness ==
    /\ Served
    /\ \E a, b \in search.candidates :
          /\ a.document_id = b.document_id
          /\ a.section_path = NULL /\ b.section_path = ""
    /\ Cardinality(search.survivors) = 1
    /\ Len(search.results) = 1

\* position (from 0) of survivor r in the list of survivors sorted by
\* combined ascending, distance ascending, lexical hit descending, chunk id ascending
SortedRank(r, S) ==
    Cardinality({q \in S :
        \/ q.combined < r.combined
        \/ q.combined = r.combined /\ q.dist < r.dist
        \/ q.combined = r.combined /\ q.dist = r.dist /\ q.lexical_hit > r.lexical_hit
        \/ q.combined = r.combined /\ q.dist = r.dist /\ q.lexical_hit = r.lexical_hit
              /\ q.chunk_id < r.chunk_id})

\* C2: the returned page is exactly the entries at positions
\* offset .. offset+top_k-1 of the survivors sorted by combined ascending,
\* distance ascending, lexical hit descending, chunk id ascending.
C2_PageIsSliceOfSortedSurvivors ==
    Served =>
        LET S == search.survivors
            off == search.payload.offset
            k == search.payload.top_k
        IN  /\ Len(search.results) = Max2(0, Min2(k, Cardinality(S) - off))
            /\ \A i \in 1..Len(search.results) :
                  \E r \in S :
                      /\ r.chunk_id = search.results[i].chunk_id
                      /\ SortedRank(r, S) = off + i - 1

\* the second page of size one over two survivors
C2_Witness ==
    /\ Served
    /\ search.payload.offset = 1
    /\ search.payload.top_k = 1
    /\ Cardinality(search.survivors) = 2
    /\ Len(search.results) = 1

\* C3: next_offset is offset + (number of results) when the number of
\* results equals top_k, and null whenever fewer than top_k results are
\* returned, the empty page included.
C3_NextOffset ==
    Served =>
        /\ (Len(search.results) = search.payload.top_k =>
                search.next_offset = search.payload.offset + Len(search.results))
        /\ (Len(search.results) < search.payload.top_k => search.next_offset = None)

\* a full page at a positive offset, with its cursor
C3_Witness ==
    /\ Served
    /\ search.payload.offset = 1
    /\ Len(search.results) = search.payload.top_k
    /\ search.next_offset = 1 + search.payload.top_k

\* C4: within each (document_id, section_path) group of candidates the one
\* candidate kept is the minimum under (combined ascending, distance
\* ascending, chunk id ascending); every other candidate of the group is
\* discarded before pagination.
C4_BestPerSection ==
    Served =>
        /\ search.survivors \subseteq search.candidates
        /\ \A c \in search.candidates :
              \E s \in search.survivors :
                  /\ GroupKey(s) = GroupKey(c)
                  /\ \/ s = c
                     \/ s.combined < c.combined
                     \/ s.combined = c.combined /\ s.dist < c.dist
                     \/ s.combined = c.combined /\ s.dist = c.dist
                           /\ s.chunk_id < c.chunk_id
        /\ \A c \in search.candidates \ search.survivors :
              \A i \in 1..Len(search.results) : search.results[i].chunk_id # c.chunk_id

\* a group of two candidates with equal combined score, decided by distance
\* against the chunk id order
C4_Witness ==
    /\ Served
    /\ \E s \in search.survivors, c \in search.candidates \ search.survivors :
          /\ GroupKey(s) = GroupKey(c)
          /\ s.combined = c.combined
          /\ s.dist < c.dist
          /\ s.chunk_id > c.chunk_id

\* C5: two candidates with identical combined score and distance are
\* returned lower chunk id first, and the response to a request is the same
\* for every order in which the stored rows are delivered.
C5_DeterministicTieBreak ==
    Served =>
        /\ \A i, j \in 1..Len(search.results) :
              \A a, b \in search.survivors :
                  /\ a.chunk_id = search.results[i].chunk_id
                  /\ b.chunk_id = search.results[j].chunk_id
                  /\ a.combined = b.combined /\ a.dist = b.dist
                  /\ a.chunk_id < b.chunk_id
                  => i < j
        /\ \A scan \in ScanOrders(embedded) :
              LET other == semantic_search(scan, search.payload)
              IN  /\ other.results = search.results
                  /\ other.next_offset = search.next_offset

\* two survivors tied on combined score and distance are both on the page
C5_Witness ==
    /\ Served
    /\ Len(search.results) = 2
    /\ \E a, b \in search.survivors :
          /\ a.chunk_id # b.chunk_id
          /\ a.combined = b.combined /\ a.dist = b.dist

\* ------------------------------------------------------------------------
\* Properties of chunk_by_toc
\* ------------------------------------------------------------------------
NumEntries == Len(entries)

\* the entries after i whose level is the same as or shallower than that of i
Closers(i) == {j \in (i + 1)..NumEntries : entries[j].level <= entries[i].level}

\* the first of them
Closer(i) == CHOOSE j \in Closers(i) : \A k \in Closers(i) : j <= k

\* the descendants of i: the entries after i and before its closer
Descendants(i) ==
    {d \in (i + 1)..NumEntries : \A j \in (i + 1)..d : entries[j].level > entries[i].level}

StartsNonDecreasing ==
    \A i, j \in 1..NumEntries : i < j => entries[i].page_from <= entries[j].page_from

WithinDocument == \A i \in 1..NumEntries : entries[i].page_from <= page_count

SharePage(a, b) ==
    \E p \in 1..Max2(MaxPage, page_count) :
        /\ a.start <= p /\ p <= a.end
        /\ b.start <= p /\ b.end >= p

\* C6: endPage of entry i is max(startPage(j) - 1, startPage(i)) for the
\* first later entry j with level <= level(i), and the page count when there
\* is none; A p1, A.1 p2, A.2 p5, B p9 with 10 pages give [1,8] [2,4] [5,8] [9,10].
C6_EndPage ==
    toc.done =>
        /\ Len(toc.ranges) = NumEntries
        /\ \A i \in 1..NumEntries :
              /\ toc.ranges[i].start = entries[i].page_from
              /\ toc.ranges[i].end =
                    IF Closers(i) = {} THEN page_count
                    ELSE Max2(entries[Closer(i)].page_from - 1, entries[i].page_from)
        /\ (entries = ScenarioToc /\ page_count = 10 =>
                /\ [i \in 1..4 |-> toc.ranges[i].start] = <<1, 2, 5, 9>>
                /\ [i \in 1..4 |-> toc.ranges[i].end] = <<8, 4, 8, 10>>)

\* the documented example has been chunked
C6_Witness ==
    /\ toc.done
    /\ entries = ScenarioToc
    /\ page_count = 10
    /\ toc.ranges[1].end = 8

\* C7 as stated, read on TOCs whose start pages do not decrease and lie
\* within the document: every descendant heading starts inside the range of
\* its ancestor.
C7_Original ==
    (toc.done /\ StartsNonDecreasing /\ WithinDocument) =>
        \A i \in 1..NumEntries : \A d \in Descendants(i) :
            /\ toc.ranges[i].start <= entries[d].page_from
            /\ entries[d].page_from <= toc.ranges[i].end

\* C7 amended: when start pages do not decrease along the TOC, every
\* descendant starts at or after its ancestor's start page, and at or before
\* the ancestor's end page provided it starts before the page on which the
\* ancestor's closing heading starts (or, with no closing heading, within the
\* page count).
C7_Containment ==
    (toc.done /\ StartsNonDecreasing) =>
        \A i \in 1..NumEntries : \A d \in Descendants(i) :
            /\ toc.ranges[i].start <= entries[d].page_from
            /\ (IF Closers(i) = {}
                THEN entries[d].page_from <= page_count
                ELSE entries[d].page_from < entries[Closer(i)].page_from)
               => entries[d].page_from <= toc.ranges[i].end

\* a heading with a descendant on a later page, closed by a heading on a
\* still later page
C7_Witness ==
    /\ toc.done
    /\ StartsNonDecreasing
    /\ \E i \in 1..NumEntries : \E d \in Descendants(i) :
          /\ Closers(i) # {}
          /\ entries[i].page_from < entries[d].page_from
          /\ entries[d].page_from < entries[Closer(i)].page_from
          /\ toc.ranges[i].end = entries[d].page_from

\* C8 as stated, read on TOCs whose start pages do not decrease and lie
\* within the document: a later heading of the same or a shallower level
\* never shares a page with the earlier heading's range.
C8_Original ==
    (toc.done /\ StartsNonDecreasing /\ WithinDocument) =>
        \A i, k \in 1..NumEntries :
            (i < k /\ entries[k].level <= entries[i].level)
                => ~SharePage(toc.ranges[i], toc.ranges[k])

\* C8 amended: when start pages do not decrease along the TOC, the ranges of
\* an earlier heading and of a later heading of the same or a shallower level
\* that starts on a later page share no page.
C8_NoOverlap ==
    (toc.done /\ StartsNonDecreasing) =>
        \A i, k \in 1..NumEntries :
            (/\ i < k
             /\ entries[k].level <= entries[i].level
             /\ entries[i].page_from < entries[k].page_from)
                => ~SharePage(toc.ranges[i], toc.ranges[k])

\* two headings of one level on consecutive pages, each with a non-empty range
C8_Witness ==
    /\ toc.done
    /\ StartsNonDecreasing
    /\ \E i, k \in 1..NumEntries :
          /\ i < k
          /\ entries[k].level = entries[i].level
          /\ entries[i].page_from < entries[k].page_from
          /\ toc.ranges[i].end = entries[k].page_from - 1
          /\ toc.ranges[k].end >= toc.ranges[k].start

\* C9: every computed range has endPage >= startPage, also for a heading
\* that starts beyond the page count and has no later heading of the same or
\* a shallower level.
C9_EndNotBeforeStart ==
    toc.done => \A i \in 1..Len(toc.ranges) : toc.ranges[i].end >= toc.ranges[i].start

\* the title that slot k holds when entry i is reached: that of the most
\* recent earlier heading at level k not followed, before i, by a heading of
\* a level below k
SlotTitle(i, k) ==
    LET live == {m \in 1..(i - 1) :
                    /\ entries[m].level = k
                    /\ \A n \in (m + 1)..(i - 1) : entries[n].level >= k}
    IN  IF live = {} THEN ""
        ELSE entries[CHOOSE m \in live : \A n \in live : n <= m].title

\* the slots 1..L the claim describes for entry i
ExpectedStack(i) ==
    [k \in 1..entries[i].level |->
        IF k = entries[i].level THEN entries[i].title ELSE SlotTitle(i, k)]

\* the non-empty slots of st from slot k on, each followed by its separator
\* unless it is the last
RECURSIVE Breadcrumb(_, _)
Breadcrumb(st, k) ==
    IF k > Len(st) THEN ""
    ELSE LET rest == Breadcrumb(st, k + 1)
         IN  IF st[k] = "" THEN rest
             ELSE IF rest = "" THEN st[k]
             ELSE st[k] \o " > " \o rest

\* C10: for every entry of level L >= 1 the stack is cut or padded to
\* length L, slot L holds the entry's title, every slot k < L holds the
\* title of the most recent earlier heading at level k not cut off by a later
\* heading of a level below k (empty when there is none), and the section
\* path joins the non-empty slots 1..L with " > ".
C10_SectionPath ==
    toc.done =>
        /\ Len(toc.paths) = NumEntries
        /\ \A i \in 1..NumEntries :
              /\ toc.stacks[i] = ExpectedStack(i)
              /\ toc.paths[i] = Breadcrumb(ExpectedStack(i), 1)

\* a level 3 heading under a level 1 heading with no level 2 heading alive:
\* an earlier level 2 title was cut off by the level 1 heading between them
C10_Witness ==
    /\ toc.done
    /\ NumEntries = 3
    /\ entries[1].level = 2 /\ entries[1].title = "B"
    /\ entries[2].level = 1 /\ entries[2].title = "A"
    /\ entries[3].level = 3 /\ entries[3].title = "B"
    /\ toc.stacks[3] = <<"A", "", "B">>
    /\ toc.paths[3] = "A > B"

\* ------------------------------------------------------------------------
\* Properties of _split_by_paragraphs
\* ------------------------------------------------------------------------
Pieces == split.pieces

\* the call went past the fits-in-one return
SplitLong == split.done /\ Len(split.text) > split.max_chars

\* some paragraph of the text is longer than max_chars and was hard split
HardSplit ==
    \E i \in DOMAIN paras_of(split.text) : Len(paras_of(split.text)[i]) > split.max_chars

\* C14: every piece returned by _split_by_paragraphs(text, max_chars) with
\* max_chars >= 1 has length <= max_chars, whichever branch produced it.
C14_PieceLength ==
    split.done => \A i \in DOMAIN Pieces : Len(Pieces[i]) <= split.max_chars

\* a text whose first paragraph is flushed from the buffer and whose later
\* paragraph is hard split into slices, one of them of full width
C14_Witness ==
    /\ SplitLong
    /\ HardSplit
    /\ Len(paras_of(split.text)) >= 2
    /\ Pieces[1] = paras_of(split.text)[1]
    /\ \E i \in DOMAIN Pieces : i > 1 /\ Len(Pieces[i]) = split.max_chars

\* the characters of t that are not whitespace, in order
Letters(t) == SelectSeq(t, LAMBDA c : ~IsSpace(c))

\* C15: no piece returned by _split_by_paragraphs is the empty string (hard
\* split slices included) and the pieces come in the order of the input:
\* their letters, read piece after piece, are the letters of the text.
C15_NonEmptyInOrder ==
    split.done =>
        /\ \A i \in DOMAIN Pieces : Pieces[i] # <<>>
        /\ Letters(join(<<>>, Pieces)) = Letters(split.text)

\* the pieces joined with the separator in the gaps g marks and nothing in
\* the other gaps
RECURSIVE Reassemble(_, _, _)
Reassemble(ps, g, i) ==
    IF i > Len(ps) THEN <<>>
    ELSE ps[i] \o (IF i < Len(ps) /\ g[i] THEN ParaSep ELSE <<>>)
               \o Reassemble(ps, g, i + 1)

\* C16: for a text longer than max_chars, the pieces concatenated in order,
\* with the separator re-inserted between buffered paragraphs and nothing
\* between hard split slices, give back the trimmed non-empty paragraphs of
\* the text.
C16_ParagraphsRecovered ==
    SplitLong =>
        \E g \in [1..(Len(Pieces) - 1) -> BOOLEAN] :
            paras_of(Reassemble(Pieces, g, 1)) = paras_of(split.text)

\* ------------------------------------------------------------------------
\* Properties of the chunk rows and their storage
\* ------------------------------------------------------------------------
\* the rows emitted by the chunk-toc request in progress or last finished
Emitted == run.chunks_rows

Built == run.status # "idle"

Committed == run.status = "done" /\ Emitted # <<>>

EmittedKeysDistinct ==
    \A i, j \in DOMAIN Emitted :
        i # j => uq_doc_chunks(Emitted[i]) # uq_doc_chunks(Emitted[j])

\* the stored rows that carry the key of an emitted row
StoredForRun ==
    {x \in document_chunks :
        \E k \in DOMAIN Emitted : uq_doc_chunks(x) = uq_doc_chunks(Emitted[k])}

\* C11: no two chunks emitted by one chunk_by_toc run have the same key
\* (document_id, section_path, chunk_index), whatever the TOC, and so the
\* number of rows stored for the run equals the reported chunks_created.
C11_EmittedKeysUnique ==
    /\ Built => EmittedKeysDistinct
    /\ Committed => Cardinality(StoredForRun) = run.chunks_created

\* C12: after successful chunk_by_toc runs for one document the stored
\* chunks are exactly the chunks emitted by the most recent run; nothing
\* written only by an earlier run remains.  (Stated for runs whose emitted
\* keys are distinct.)
C12_RerunReplaces ==
    (Committed /\ EmittedKeysDistinct) => document_chunks = Range(Emitted)

\* the last emitted row of every key is stored
BatchVisible ==
    \A k \in DOMAIN Emitted :
        (\A j \in DOMAIN Emitted :
            j > k => uq_doc_chunks(Emitted[j]) # uq_doc_chunks(Emitted[k]))
        => Emitted[k] \in document_chunks

\* C13: the batch write of chunk_by_toc is all-or-nothing.  While the batch
\* is being written and after it failed, the committed rows, which are what
\* any concurrent reader sees, are those of before the run; after the commit
\* the whole batch is visible and the rows of other keys are untouched.
C13_AllOrNothing ==
    /\ run.status \in {"writing", "failed"} => document_chunks = run.before
    /\ Committed =>
          /\ BatchVisible
          /\ document_chunks \ StoredForRun \subseteq run.before

\* a re-run over stored chunks fails after part of its rows were written
C13_Witness ==
    /\ run.status = "failed"
    /\ run.before # {}
    /\ run.written >= 1
    /\ run.written < Len(Emitted)
    /\ \E k \in 1..run.written : Emitted[k] \notin run.before

\* pages of section i that document_pages holds
PresentPages(i) ==
    {p \in run.sections[i].start..run.sections[i].end : p \in DOMAIN document_pages}

\* the texts of the pages of S in ascending page order
RECURSIVE AscendingTexts(_)
AscendingTexts(S) ==
    IF S = {} THEN <<>>
    ELSE LET p == CHOOSE q \in S : \A r \in S : q <= r
         IN  <<document_pages[p]>> \o AscendingTexts(S \ {p})

ExpectedText(i) == strip(join(ParaSep, AscendingTexts(PresentPages(i))))

RECURSIVE PiecesUpto(_)
PiecesUpto(i) == IF i = 0 THEN 0 ELSE PiecesUpto(i - 1) + Len(run.sections[i].pieces)

\* C18: a TOC range whose pages are all absent from the page-text map, or
\* whose joined text is empty after trimming, emits no chunk and raises no
\* error, and the other ranges are still processed; missing pages inside a
\* range are skipped and the present pages are joined in ascending order.
C18_EmptySectionSkipped ==
    Built =>
        /\ Len(run.sections) = Len(entries)
        /\ \A i \in DOMAIN run.sections :
              /\ run.sections[i].full_text = ExpectedText(i)
              /\ (PresentPages(i) = {} \/ ExpectedText(i) = <<>>)
                     <=> run.sections[i].pieces = <<>>
        /\ Len(Emitted) = PiecesUpto(Len(run.sections))
        /\ run.status = "failed" => Emitted # <<>>

\* an outline whose first range has no parsed page and whose second range
\* has two parsed pages of different text and one missing page
C18_Witness ==
    /\ run.status = "done"
    /\ Len(run.sections) = 2
    /\ PresentPages(1) = {}
    /\ Cardinality(PresentPages(2)) = 2
    /\ run.sections[2].end > Len(document_pages)
    /\ \E p, q \in PresentPages(2) :
          /\ p < q
          /\ document_pages[p] # <<>>
          /\ document_pages[q] # <<>>
          /\ document_pages[p] # document_pages[q]
    /\ Emitted # <<>>

\* ------------------------------------------------------------------------
\* Properties of normalize_text
\* ------------------------------------------------------------------------
\* C17: normalize_text is idempotent: applying it to its own output changes
\* nothing, also when a mojibake replacement or the removal of a stray
\* prefix character produces text that an earlier step would rewrite.
C17_Idempotent ==
    \A i \in 2..Len(norm.out) : norm.out[i] = norm.out[i - 1]

\* ------------------------------------------------------------------------
\* Properties of paginate_search
\* ------------------------------------------------------------------------
\* the rows of s whose key no earlier row of s carries, in the order of s
FirstOccurrences(s) ==
    LET first == {i \in DOMAIN s : \A j \in 1..(i - 1) : row_key(s[j]) # row_key(s[i])}
        Rank(i) == Cardinality({j \in first : j <= i})
    IN  [k \in 1..Cardinality(first) |-> s[CHOOSE i \in first : Rank(i) = k]]

\* the served rows have the keys of the documented pages: (1,10),(1,11)
\* and then (1,11),(1,12)
DedupScenario ==
    /\ Len(pager.arrived) = 4
    /\ [i \in 1..4 |-> row_key(pager.arrived[i])]
           = <<<<1, 10>>, <<1, 11>>, <<1, 11>>, <<1, 12>>>>

\* C19: whatever pages are served, the list paginate_search returns has no
\* two rows with the same (document_id, chunk_index): every key is there
\* once, as its first occurrence, in order of first arrival; the pages
\* (1,10),(1,11) and (1,11),(1,12) give 3 rows with indices {10,11,12}.
C19_DedupFirstOccurrence ==
    /\ \A i, j \in DOMAIN pager.all_rows :
          i # j => row_key(pager.all_rows[i]) # row_key(pager.all_rows[j])
    /\ pager.all_rows = FirstOccurrences(pager.arrived)
    /\ DedupScenario =>
          /\ Len(pager.all_rows) = 3
          /\ {r.chunk_index : r \in Range(pager.all_rows)} = {10, 11, 12}

\* the documented pages were served in two requests and the call returned
C19_Witness ==
    /\ pager.status = "returned"
    /\ Len(pager.requests) = 2
    /\ DedupScenario
    /\ pager.arrived[3].preview_clean = 2
    /\ pager.all_rows[2].preview_clean = 1

\* C20: the first request carries offset 0, every later request carries the
\* next_offset of the response just before it, and no request follows a
\* response whose next_offset is absent or null.
C20_FollowsNextOffset ==
    /\ Len(pager.requests) >= 1 => pager.requests[1] = 0
    /\ \A k \in 2..Len(pager.requests) :
          /\ pager.responses[k - 1] \notin {Absent, None}
          /\ pager.requests[k] = pager.responses[k - 1]
    /\ (Len(pager.responses) >= 1 /\ pager.status # "raised"
            /\ pager.responses[Len(pager.responses)] \in {Absent, None})
           => pager.status = "returned"
    /\ pager.status = "returned" =>
           pager.responses[Len(pager.responses)] \in {Absent, None}

\* a second request went out with the non-zero next_offset of the first
\* response, and the call returned on a response without next_offset
C20_Witness ==
    /\ pager.status = "returned"
    /\ pager.requests = <<0, 2>>
    /\ pager.responses = <<2, Absent>>
    /\ Len(pager.arrived) = 1

\* ------------------------------------------------------------------------
\* Properties of paginate_search over the /search endpoint
\* ------------------------------------------------------------------------
\* the sections that have a chunk passing the default filters: one survivor each
SurvivingSections ==
    {<<c.document_id, COALESCE(c.section_path, "")>> :
        c \in {e \in embedded : Where(e, SearchIn(1, 0))}}

SurvivorCount == Cardinality(SurvivingSections)

RequestsMade == Len(pager.requests)

\* C21: over an unchanging chunk set with N one-per-section survivors and
\* page size k >= 1, paginate_search terminates after exactly floor(N/k) + 1
\* requests: while it runs it has made at most floor(N/k) requests (every
\* iteration makes one more, so the loop cannot go on for ever), when it
\* returns it has made floor(N/k) + 1, and the last page it received is
\* shorter than k (possibly empty).
C21_TerminatesAfterAllPages ==
    /\ (pager.status = "running" =>
            RequestsMade <= SurvivorCount \div pager.top_k)
    /\ (pager.status = "returned" =>
            /\ RequestsMade = (SurvivorCount \div pager.top_k) + 1
            /\ Len(search.results) < pager.top_k)

C21_Witness ==
    /\ pager.status = "returned"
    /\ SurvivorCount = 2
    /\ pager.top_k = 2
    /\ pager.requests = <<0, 2>>
    /\ Len(search.results) = 0

\* every response so far was a full page with a non-null next_offset
AlwaysFullPages ==
    /\ Len(pager.arrived) = pager.top_k * RequestsMade
    /\ \A k \in DOMAIN pager.responses : pager.responses[k] \notin {Absent, None}

\* C22: paginate_search imposes a hard ceiling on the number of pages it
\* requests: against an endpoint whose every response is a full page with a
\* non-null next_offset, it has stopped once MaxRequests pages were requested.
C22_PageCeiling ==
    (RequestsMade = MaxRequests /\ AlwaysFullPages) => pager.status # "running"

\* x before y in the lexicographic order of two tuples of equal length
LexLess(x, y) ==
    \E i \in DOMAIN x :
        /\ x[i] < y[i]
        /\ \A j \in 1..(i - 1) : x[j] = y[j]

\* what the spec ranks by: combined score, then distance, then id
SectionKey(c) == <<c.dist - boost_coef * c.lexical_hit, c.dist, c.chunk_id>>

\* what the final list is ordered by: combined score, distance, lexical hits
\* first, then id
RankKey(c) == <<c.dist - boost_coef * c.lexical_hit, c.dist, 1 - c.lexical_hit, c.chunk_id>>

\* the survivor of section g: the chunk of g that no other chunk of g beats
SurvivorOf(g) ==
    LET members == {c \in embedded :
                       /\ Where(c, SearchIn(1, 0))
                       /\ <<c.document_id, COALESCE(c.section_path, "")>> = g}
    IN  CHOOSE c \in members :
            \A d \in members \ {c} : LexLess(SectionKey(c), SectionKey(d))

Survivors == {SurvivorOf(g) : g \in SurvivingSections}

\* chunk ids of the survivors in the order of the final ORDER BY
RankedSurvivorIds ==
    LET before(c) == {d \in Survivors : LexLess(RankKey(d), RankKey(c))}
    IN  [p \in 1..SurvivorCount |->
            (CHOOSE c \in Survivors : Cardinality(before(c)) = p - 1).chunk_id]

\* chunk ids of the rows of the pages received so far, page after page
ArrivedIds == [i \in DOMAIN pager.arrived |-> pager.arrived[i].chunk_id]

\* C28: over an unchanging chunk set, the pages served from offset 0 along
\* next_offset are pairwise disjoint and always a prefix of the ordered list
\* of one-per-section survivors; when next_offset is null their concatenation
\* is that whole list: every survivor is on exactly one page.
C28_PagesPartitionSurvivors ==
    /\ \A i, j \in DOMAIN ArrivedIds : i # j => ArrivedIds[i] # ArrivedIds[j]
    /\ Len(ArrivedIds) <= SurvivorCount
    /\ ArrivedIds = SubSeq(RankedSurvivorIds, 1, Len(ArrivedIds))
    /\ (pager.status = "returned" => ArrivedIds = RankedSurvivorIds)

C28_Witness ==
    /\ pager.status = "returned"
    /\ pager.top_k = 1
    /\ pager.requests = <<0, 1, 2>>
    /\ Len(ArrivedIds) = 2
    /\ Cardinality(embedded) = 2

\* C29: paginate_search drops a row only if the same chunk was already
\* collected: over an unchanging chunk set the returned list holds every
\* chunk the endpoint served.
C29_EveryServedChunkKept ==
    pager.status = "returned" =>
        {r.chunk_id : r \in Range(pager.all_rows)} = Range(ArrivedIds)

\* survivors no page has delivered yet
NotYetArrived == {c \in Survivors : c.chunk_id \notin Range(ArrivedIds)}

\* C26: with combined = dist - 0.05 * lexical_hit, a survivor a whose
\* distance is smaller than that of b by more than the boost is ranked before
\* b whatever their lexical hits: it arrives earlier in the walk, and it never
\* waits while b has arrived.
C26_BoostBoundedByCoef ==
    /\ \A i, j \in DOMAIN pager.arrived :
          pager.arrived[i].dist + boost_coef < pager.arrived[j].dist => i < j
    /\ \A a \in NotYetArrived : \A j \in DOMAIN pager.arrived :
          ~(a.dist + boost_coef < pager.arrived[j].dist)

\* a lexical hit at distance 16 stays behind a plain match at distance 10
C26_Witness ==
    /\ pager.status = "returned"
    /\ \E a, b \in embedded :
          /\ a.dist = 10 /\ a.lexical_hit = 0
          /\ b.dist = 16 /\ b.lexical_hit = 1
          /\ ArrivedIds = <<a.chunk_id, b.chunk_id>>

\* ------------------------------------------------------------------------
\* Properties of the embedding store
\* ------------------------------------------------------------------------
\* the current content of the chunk with the given id
ContentOf(chunk_id) == select_chunks(chunk_ids, document_chunks)[chunk_id].content

\* the stored embedding rows of a chunk
StoredFor(table, chunk_id) == {r \in table : r.chunk_id = chunk_id}

\* position in embed.rows -> number of the batch it belongs to
BatchOf(i) == ((i - 1) \div embed.batch_size) + 1

\* ids of the chunks of the batch the request stopped in
FailedBatchIds ==
    {embed.rows[i].id : i \in {j \in DOMAIN embed.rows : BatchOf(j) = embed.batch}}

FreshRow(i) ==
    [chunk_id |-> embed.rows[i].id, text |-> embed.rows[i].content, dim |-> EMBED_DIM]

HasText(i) == strip(embed.rows[i].content) # <<>>

\* C24: when embed_document fails in batch k, the embeddings of the
\* non-empty chunks of batches 1..k-1 are persisted and the stored rows of
\* the chunks of batch k are those from before the request; a run that
\* completes has embedded every non-empty chunk again, and no chunk ever has
\* two embedding rows.
C24_BatchCommitBoundary ==
    /\ (embed.kind = "document" /\ embed.status \in {"failed", "refused"} =>
            /\ \A i \in DOMAIN embed.rows :
                  (BatchOf(i) < embed.batch /\ HasText(i)) =>
                      FreshRow(i) \in chunk_embeddings
            /\ \A id \in FailedBatchIds :
                  StoredFor(chunk_embeddings, id) = StoredFor(embed.before, id))
    /\ (embed.kind = "document" /\ embed.status = "done" =>
            \A i \in DOMAIN embed.rows :
                HasText(i) => StoredFor(chunk_embeddings, embed.rows[i].id) = {FreshRow(i)})
    /\ \A id \in 1..Len(chunk_ids) : Cardinality(StoredFor(chunk_embeddings, id)) <= 1

\* a re-run over stored embeddings fails in its second batch
C24_Witness ==
    /\ embed.kind = "document"
    /\ embed.status = "failed"
    /\ embed.batch = 2
    /\ embed.left = 0
    /\ embed.before # {}
    /\ FreshRow(1) \in chunk_embeddings

\* C30: each stored embedding was computed from the current content of its
\* chunk, whatever chunk-toc and embed requests ran.
C30_EmbeddingOfCurrentContent ==
    \A r \in chunk_embeddings : r.text = ContentOf(r.chunk_id)

\* ------------------------------------------------------------------------
\* Properties of the stored TOC
\* ------------------------------------------------------------------------
\* C27: after any store-toc requests for a document, overlapping or not, the
\* stored TOC rows all come from one request and their order_index values
\* are unique, 1..n.
C27_StoredTocOfOneRun ==
    /\ Cardinality({x.run : x \in document_toc}) <= 1
    /\ \A x, y \in document_toc : x # y => x.order_index # y.order_index
    /\ {x.order_index : x \in document_toc} = 1..Cardinality(document_toc)

\* ------------------------------------------------------------------------
\* Properties of the document endpoints
\* ------------------------------------------------------------------------
\* C25: every document endpoint called with the id of a document that does
\* not exist answers 404 and changes no stored state.
C25_MissingDocumentIs404 ==
    (reply # NoReply /\ reply.doc_id \notin DOMAIN documents) =>
        /\ reply.status = 404
        /\ Stored = reply.before

====
